---------------------------- MODULE Spec2Model ----------------------------
(***************************************************************************)
(* Fire-spread simulator: the per-simulation engine                        *)
(* (app/core/simulation_engine.py, FireSimulationEngine) and the manager   *)
(* that runs one asyncio tick loop per running simulation                  *)
(* (app/core/simulation_manager.py, SimulationManager).                    *)
(*                                                                         *)
(* Eight specifications share the operators:                               *)
(*   EngineSpec  one engine driven directly through start/pause/stop/step  *)
(*   Spec        the manager before shutdown(): create, start, pause,      *)
(*               stop, delete and the websocket route for one simulation   *)
(*               id, interleaved with the tick loops at their suspension   *)
(*               points, with faults inside step                           *)
(*   CapSpec     the manager before shutdown() with two simulation ids,    *)
(*               any total cap, no websocket and no fault                  *)
(*   ShutSpec       Spec with shutdown() called at any moment              *)
(*   FrameSpec      two simulation ids, websockets and faults on one       *)
(*   RothermelSpec  the functions of RothermelModel (app/core/rothermel.py)*)
(*                  called on their own                                    *)
(*   SpreadSpec     one engine whose spread pass ignites the cells the     *)
(*                  Rothermel rates and a fixed random sample select       *)
(*   LiveSpec       Spec without pause and stop requests, under weak       *)
(*                  fairness of the steps of the tick loops                *)
(***************************************************************************)
EXTENDS Integers, Sequences, FiniteSets, TLC

(***************************************************************************)
(* Bounds of the model.                                                    *)
(***************************************************************************)
\* websocket connections that may subscribe: 1..NumSockets
NumSockets == 1
\* simulation objects alive at once (in the table or still held by a loop)
MaxObjs == 3
\* asyncio tasks alive or still registered at once
MaxTasks == 2
\* settings.MAX_SIMULATIONS and settings.MAX_CONCURRENT_SIMULATIONS of the
\* manager runs
MgrMaxSimulations == 2
MgrMaxConcurrent == 1
\* settings.MAX_SIMULATION_TIME / MAX_FIRE_CELLS_PER_SIMULATION, manager runs
MgrMaxTime == 2
MgrMaxCells == 2
\* settings.MAX_SIMULATION_TIME of the capacity runs
CapMaxTime == 1
\* settings.MAX_SIMULATION_TIME / MAX_FIRE_CELLS_PER_SIMULATION, engine runs
EngMaxTime == 64
EngMaxCells == 3

(***************************************************************************)
(* Enumerations (app/models/simulation.py).                                *)
(***************************************************************************)
CREATED == "created"
RUNNING == "running"
PAUSED == "paused"
COMPLETED == "completed"
ERROR == "error"
SimulationStatus == {CREATED, RUNNING, PAUSED, COMPLETED, ERROR}

BURNING == "burning"
BURNED == "burned"

Max(a, b) == IF a >= b THEN a ELSE b
Min(a, b) == IF a <= b THEN a ELSE b

(***************************************************************************)
(* FireSimulationEngine.  A grid position is a pair <<x, y>>; the grid is  *)
(* a function whose domain is the set of positions present in fire_grid.   *)
(* A cell keeps state, ignition_time, intensity, temperature and           *)
(* burned_duration (GridCell); its world coordinates are those of its grid *)
(* position and are not kept.                                              *)
(***************************************************************************)

\* the engine that is not there: a free slot of the heap
NoEngine ==
  [status |-> "none", current_time |-> 0, fire_grid |-> <<>>,
   active_fire_cells |-> {}, fire_perimeter |-> {},
   total_cells_burned |-> 0, peak_intensity |-> 0,
   max_simulation_time |-> 0, max_fire_cells |-> 0]

\* _initialize_ignition_points: one BURNING cell of intensity 100 per point
IgnitionCell ==
  [state |-> BURNING, ignition_time |-> 0, intensity |-> 100,
   temperature |-> 800, burned_duration |-> 0]

\* FireSimulationEngine.__init__ for ignition points at grid positions pts
NewEngine(pts, maxTime, maxCells) ==
  [status |-> CREATED, current_time |-> 0,
   fire_grid |-> [p \in pts |-> IgnitionCell],
   active_fire_cells |-> pts, fire_perimeter |-> pts,
   total_cells_burned |-> 0, peak_intensity |-> 0,
   max_simulation_time |-> maxTime, max_fire_cells |-> maxCells]

_get_neighboring_cells(p) ==
  {<<p[1] + dx, p[2] + dy>> : dx \in {-1, 0, 1}, dy \in {-1, 0, 1}} \ {p}

\* the decay of one cell with the cap on the burning time reached one tick
\* early
DecayCell_earlycap(c, now) ==
  IF c.state # BURNING THEN c
  ELSE LET i == Max(0, c.intensity - 1)
           burn_duration == now - c.ignition_time
       IN  IF burn_duration >= 60 \/ i < 5
           THEN [c EXCEPT !.intensity = i, !.temperature = 100 + i * 5,
                          !.state = BURNED, !.burned_duration = burn_duration]
           ELSE [c EXCEPT !.intensity = i, !.temperature = 100 + i * 5]

\* the decay of one cell with the cap on the burning time reached one tick
\* late
DecayCell_latecap(c, now) ==
  IF c.state # BURNING THEN c
  ELSE LET i == Max(0, c.intensity - 1)
           burn_duration == now - c.ignition_time
       IN  IF burn_duration > 61 \/ i < 5
           THEN [c EXCEPT !.intensity = i, !.temperature = 100 + i * 5,
                          !.state = BURNED, !.burned_duration = burn_duration]
           ELSE [c EXCEPT !.intensity = i, !.temperature = 100 + i * 5]

\* the body of the loop of _update_existing_fire_cells for one cell
DecayCell(c, now) ==
  IF c.state # BURNING THEN c
  ELSE LET i == Max(0, c.intensity - 1)
           burn_duration == now - c.ignition_time
       IN  IF burn_duration > 60 \/ i < 5
           THEN [c EXCEPT !.intensity = i, !.temperature = 100 + i * 5,
                          !.state = BURNED, !.burned_duration = burn_duration]
           ELSE [c EXCEPT !.intensity = i, !.temperature = 100 + i * 5]

SetMax(S, least) ==
  IF S = {} THEN least ELSE Max(least, CHOOSE m \in S : \A n \in S : n <= m)

\* the decay pass counting a burned-out cell at every visit
_update_existing_fire_cells_recount(e) ==
  LET g == e.fire_grid
      g2 == [p \in DOMAIN g |->
               IF p \in e.active_fire_cells
               THEN DecayCell(g[p], e.current_time) ELSE g[p]]
      turned == {p \in DOMAIN g : g[p].state = BURNING /\ g2[p].state = BURNED}
      burned == {p \in e.active_fire_cells : g2[p].state = BURNED}
  IN  [e EXCEPT !.fire_grid = g2,
                !.total_cells_burned = @ + Cardinality(burned),
                !.peak_intensity =
                   SetMax({g2[p].intensity : p \in turned}, @)]

\* _update_existing_fire_cells: every position of active_fire_cells is
\* visited; cells_to_remove is collected and never applied, so
\* active_fire_cells is left as it was
_update_existing_fire_cells(e) ==
  LET g == e.fire_grid
      g2 == [p \in DOMAIN g |->
               IF p \in e.active_fire_cells
               THEN DecayCell(g[p], e.current_time) ELSE g[p]]
      turned == {p \in DOMAIN g : g[p].state = BURNING /\ g2[p].state = BURNED}
  IN  [e EXCEPT !.fire_grid = g2,
                !.total_cells_burned = @ + Cardinality(turned),
                !.peak_intensity =
                   SetMax({g2[p].intensity : p \in turned}, @)]

\* _update_fire_perimeter
_update_fire_perimeter(e) ==
  [e EXCEPT !.fire_perimeter =
     {p \in e.active_fire_cells :
        \E n \in _get_neighboring_cells(p) : n \notin DOMAIN e.fire_grid}]

\* the spread pass without its test that the neighbour is absent
SpreadCandidates_revisits(e) ==
  UNION {_get_neighboring_cells(p) :
           p \in {q \in e.fire_perimeter :
                    q \in DOMAIN e.fire_grid /\ e.fire_grid[q].state = BURNING}}

\* The positions _spread_fire can ignite: absent neighbours of a perimeter
\* position that is in the grid and whose cell is BURNING
\* (_calculate_spread_to_neighbor returns False for any other source).
SpreadCandidates(e) ==
  UNION {{n \in _get_neighboring_cells(p) : n \notin DOMAIN e.fire_grid} :
           p \in {q \in e.fire_perimeter :
                    q \in DOMAIN e.fire_grid /\ e.fire_grid[q].state = BURNING}}

\* The cell _spread_fire inserts when _calculate_spread_to_neighbor returned
\* new_intensity i0 (already clamped to 20..200): intensity boosted by 1.5
\* and capped at 200, temperature (300 + 3*i0) * 1.2 capped at 800.
SpreadCell(i0, now) ==
  [state |-> BURNING, ignition_time |-> now,
   intensity |-> Min(200, (i0 * 3) \div 2),
   temperature |-> Min(800, ((300 + i0 * 3) * 6) \div 5),
   burned_duration |-> 0]

\* a spread pass in which the cells it ignites ignite their own absent
\* neighbours at once
_spread_fire_cascade(e, draws) ==
  LET first == DOMAIN draws \cap SpreadCandidates(e)
      g == e.fire_grid
      ring == UNION {_get_neighboring_cells(p) : p \in first}
                \ (DOMAIN g \cup first)
      new == first \cup ring
      e2 == [e EXCEPT
               !.fire_grid =
                  [p \in DOMAIN g \cup new |->
                     IF p \in first THEN SpreadCell(draws[p], e.current_time)
                     ELSE IF p \in ring THEN SpreadCell(20, e.current_time)
                     ELSE g[p]],
               !.active_fire_cells = @ \cup new,
               !.fire_perimeter = @ \cup new]
  IN  _update_fire_perimeter(e2)

\* _spread_fire.  draws maps each position whose random sample fell below
\* its ignition probability to the new_intensity drawn for it.
_spread_fire(e, draws) ==
  LET new == DOMAIN draws \cap SpreadCandidates(e)
      g == e.fire_grid
      e2 == [e EXCEPT
               !.fire_grid =
                  [p \in DOMAIN g \cup new |->
                     IF p \in new THEN SpreadCell(draws[p], e.current_time)
                     ELSE g[p]],
               !.active_fire_cells = @ \cup new,
               !.fire_perimeter = @ \cup new]
  IN  _update_fire_perimeter(e2)

\* the termination checks without the one of max_fire_cells
Terminate_nocellcap(e) ==
  IF Cardinality(e.active_fire_cells) = 0 THEN [e EXCEPT !.status = COMPLETED]
  ELSE IF e.current_time >= e.max_simulation_time
       THEN [e EXCEPT !.status = COMPLETED]
  ELSE e

\* the termination checks at the end of step
Terminate(e) ==
  IF Cardinality(e.active_fire_cells) = 0 THEN [e EXCEPT !.status = COMPLETED]
  ELSE IF e.current_time >= e.max_simulation_time
       THEN [e EXCEPT !.status = COMPLETED]
  ELSE IF Cardinality(DOMAIN e.fire_grid) >= e.max_fire_cells
       THEN [e EXCEPT !.status = COMPLETED]
  ELSE e

\* Where an unexpected exception may be raised inside step's try block:
\* nowhere, on entry to the decay pass, or on entry to the spread pass.
FaultPoints == {"none", "decay", "spread"}

\* step without its test of the status
step_unguarded(e, draws, fault) ==
  IF fault = "decay" THEN [e EXCEPT !.status = ERROR]
  ELSE LET e1 == _update_existing_fire_cells(e)
       IN  IF fault = "spread" THEN [e1 EXCEPT !.status = ERROR]
           ELSE LET e2 == _spread_fire(e1, draws)
                    e3 == [e2 EXCEPT !.current_time = @ + 1]
                IN  Terminate(e3)

\* step with an except clause that leaves the status as it is
step_faultignored(e, draws, fault) ==
  IF e.status # RUNNING \/ fault # "none" THEN e
  ELSE LET e1 == _update_existing_fire_cells(e)
           e2 == _spread_fire(e1, draws)
           e3 == [e2 EXCEPT !.current_time = @ + 1]
       IN  Terminate(e3)

\* step with the spread pass before the decay pass
step_spreadfirst(e, draws, fault) ==
  IF e.status # RUNNING THEN e
  ELSE IF fault = "decay" THEN [e EXCEPT !.status = ERROR]
  ELSE LET e1 == _spread_fire(e, draws)
       IN  IF fault = "spread" THEN [e1 EXCEPT !.status = ERROR]
           ELSE LET e2 == _update_existing_fire_cells(e1)
                    e3 == [e2 EXCEPT !.current_time = @ + 1]
                IN  Terminate(e3)

\* FireSimulationEngine.step
step(e, draws, fault) ==
  IF e.status # RUNNING THEN e
  ELSE IF fault = "decay" THEN [e EXCEPT !.status = ERROR]
  ELSE LET e1 == _update_existing_fire_cells(e)
       IN  IF fault = "spread" THEN [e1 EXCEPT !.status = ERROR]
           ELSE LET e2 == _spread_fire(e1, draws)
                    e3 == [e2 EXCEPT !.current_time = @ + 1]
                IN  Terminate(e3)

start(e) == [e EXCEPT !.status = RUNNING]
pause(e) == [e EXCEPT !.status = PAUSED]
stop(e) == [e EXCEPT !.status = COMPLETED]

\* _get_current_state: the fields of the snapshot the model keeps
_get_current_state(e) == [status |-> e.status, currentTime |-> e.current_time]

\* the metadata of the snapshot _get_current_state builds: activeFires is
\* the size of active_fire_cells, burnedArea the number of BURNED cells of
\* the grid
SimulationMetadata(e) ==
  [totalCells |-> Cardinality(DOMAIN e.fire_grid),
   activeFires |-> Cardinality(e.active_fire_cells),
   burnedArea |->
     Cardinality({p \in DOMAIN e.fire_grid : e.fire_grid[p].state = BURNED})]

\* new_intensity values the random source may produce (the clamp's two ends)
BaseIntensities == {20, 200}

\* the random source's outcomes for one spread pass, within a window
DrawsIn(e, window) ==
  LET cands == SpreadCandidates(e) \cap window
  IN  UNION {[I -> BaseIntensities] : I \in SUBSET cands}

\* The part of the unbounded grid in which the random source is let ignite
\* cells.  In the engine runs it holds a neighbour of the origin; in the
\* manager runs it holds nothing but the ignition point, so that no draw
\* ignites a cell there (GRID_RESOLUTION coarse enough for every ignition
\* probability to be below 1).
EngWindow == {<<0, 0>>, <<1, 0>>}
MgrWindow == {<<0, 0>>}

\* the inputs of one call of step: the random source's draws and the fault
StepInputs(e, window, faults) ==
  IF e.status # RUNNING THEN {[draws |-> <<>>, fault |-> "none"]}
  ELSE {[draws |-> <<>>, fault |-> f] : f \in faults \ {"none"}}
       \cup {[draws |-> d, fault |-> "none"] :
               d \in DrawsIn(_update_existing_fire_cells(e), window)}

(***************************************************************************)
(* RothermelModel (app/core/rothermel.py).  Numbers are fixed-point:       *)
(* a moisture content is counted in halves of a percent (fuel_moisture is  *)
(* humidity * 0.5, so a cell's moisture is its humidity in that unit), a   *)
(* wind speed in tenths of a m/s, an angle in degrees, a coefficient in    *)
(* thousandths and a spread rate in hundredths of a m/min, each rounded    *)
(* down.  The constants that take a power or an exponential of the fuel    *)
(* properties are tabulated per fuel from the source's formulas.           *)
(***************************************************************************)
VegetationTypes == {"forest", "grassland", "shrubland", "agricultural", "urban"}

\* FUEL_PROPERTIES[f].moisture_extinction, in percent
moisture_extinction(f) ==
  CASE f = "forest" -> 25
    [] f = "grassland" -> 15
    [] f = "shrubland" -> 20
    [] f = "agricultural" -> 12
    [] f = "urban" -> 10

\* the moisture damping with the ratio taken to the extinction moisture of
\* forest whatever the fuel
calculate_moisture_damping_coefficient_forestratio(moisture_content, f) ==
  LET D == 2 * moisture_extinction("forest")
      n == moisture_content
  IN  IF n < D
      THEN LET E == 100 * D * D * D - 259 * n * D * D
                    + 511 * n * n * D - 352 * n * n * n
           IN  Max(0, Min(1000, (10 * E) \div (D * D * D)))
      ELSE 0

\* calculate_moisture_damping_coefficient, in thousandths.  With n the
\* moisture in halves of a percent and D twice the extinction moisture the
\* ratio is n / D and the polynomial 1 - 2.59 r + 5.11 r^2 - 3.52 r^3 is
\* E / (100 D^3).
calculate_moisture_damping_coefficient(moisture_content, f) ==
  LET D == 2 * moisture_extinction(f)
      n == moisture_content
  IN  IF n < D
      THEN LET E == 100 * D * D * D - 259 * n * D * D
                    + 511 * n * n * D - 352 * n * n * n
           IN  Max(0, Min(1000, (10 * E) \div (D * D * D)))
      ELSE 0

\* reaction intensity at eta_M = 1 times the propagating flux ratio over
\* the bulk density (calculate_reaction_intensity,
\* calculate_propagating_flux_ratio), rounded down
FluxPerBulkDensity(f) ==
  CASE f = "forest" -> 18788
    [] f = "grassland" -> 121519
    [] f = "shrubland" -> 36772
    [] f = "agricultural" -> 47780
    [] f = "urban" -> 86833

\* calculate_base_spread_rate, in hundredths of a m/min: the moisture is
\* brought into 1 .. moisture_extinction - 1 before it is used, and the
\* heat of preignition is 250 + 11.16 * moisture
calculate_base_spread_rate(parameters, moisture_content) ==
  LET f == parameters.vegetationType
      m == Max(2, Min(moisture_content, 2 * moisture_extinction(f) - 2))
      eta_M == calculate_moisture_damping_coefficient(m, f)
  IN  IF eta_M <= 0 THEN 0
      ELSE (10 * FluxPerBulkDensity(f) * eta_M) \div (25000 + 558 * m)

\* C * U^B * (beta / 0.0189)^(-E) of calculate_wind_coefficient for the
\* wind speeds 0.1, 1 and 2 m/s, in thousandths
WindTerm(f, windSpeed) ==
  CASE f = "forest" ->
         (CASE windSpeed = 1 -> 57 [] windSpeed = 10 -> 6744
            [] windSpeed = 20 -> 28344)
    [] f = "grassland" ->
         (CASE windSpeed = 1 -> 0 [] windSpeed = 10 -> 1143
            [] windSpeed = 20 -> 16421)
    [] f = "shrubland" ->
         (CASE windSpeed = 1 -> 4 [] windSpeed = 10 -> 2688
            [] windSpeed = 20 -> 18352)
    [] f = "agricultural" ->
         (CASE windSpeed = 1 -> 0 [] windSpeed = 10 -> 1706
            [] windSpeed = 20 -> 16082)
    [] f = "urban" ->
         (CASE windSpeed = 1 -> 10 [] windSpeed = 10 -> 3413
            [] windSpeed = 20 -> 19459)

\* the wind coefficient without its lower limit of 1.0
calculate_wind_coefficient_unclamped(parameters) ==
  IF parameters.windSpeed <= 0 THEN 1000
  ELSE WindTerm(parameters.vegetationType, parameters.windSpeed)

\* calculate_wind_coefficient, in thousandths
calculate_wind_coefficient(parameters) ==
  IF parameters.windSpeed <= 0 THEN 1000
  ELSE Max(1000, WindTerm(parameters.vegetationType, parameters.windSpeed))

\* calculate_slope_coefficient, in thousandths: 5.275 * radians(slope)^2 is
\* 1.60687 thousandths per square degree
calculate_slope_coefficient(parameters) ==
  IF parameters.slope <= 0 THEN 1000
  ELSE Max(1000, (160687 * parameters.slope * parameters.slope) \div 100000)

\* wind_angle_diff of calculate_directional_spread_rate
wind_angle_diff(direction_degrees, windDirection) ==
  LET d == IF direction_degrees >= windDirection
           THEN direction_degrees - windDirection
           ELSE windDirection - direction_degrees
  IN  IF d > 180 THEN 360 - d ELSE d

\* math.cos(math.radians(d)) for the multiples of 45 degrees, in
\* thousandths rounded toward zero
Cos(d) ==
  CASE d = 0 -> 1000 [] d = 45 -> 707 [] d = 90 -> 0
    [] d = 135 -> -707 [] d = 180 -> -1000

\* math.cos(math.radians(d)) > 0 in binary64: radians(90) is not pi / 2
\* and its cosine is 6.123e-17, not 0
CosIsPositive(d) == d \in {0, 45, 90}

\* the directional wind term with the sign of the cosine reversed, so that
\* the wind pushes the fire against its own direction
phi_w_directional_reversed(parameters, direction_degrees) ==
  LET phi_w_max == calculate_wind_coefficient(parameters)
      d == 180 - wind_angle_diff(direction_degrees, parameters.windDirection)
  IN  [milli |-> 1000 + ((phi_w_max - 1000) * Max(0, Cos(d))) \div 1000,
       above_one |-> /\ CosIsPositive(d)
                     /\ IF d = 90 THEN phi_w_max - 1000 > 1813
                        ELSE phi_w_max > 1000]

\* phi_w_directional of calculate_directional_spread_rate:
\* 1.0 + (phi_w_max - 1.0) * max(0, wind_factor).  milli is the value in
\* thousandths rounded down; above_one tells whether the binary64 value is
\* greater than 1.0.  At 90 degrees the product is
\* (phi_w_max - 1.0) * 6.123e-17, and the sum with 1.0 rounds to 1.0 unless
\* the product exceeds 2^-53, that is unless phi_w_max - 1.0 > 1.813.
phi_w_directional(parameters, direction_degrees) ==
  LET phi_w_max == calculate_wind_coefficient(parameters)
      d == wind_angle_diff(direction_degrees, parameters.windDirection)
  IN  [milli |-> 1000 + ((phi_w_max - 1000) * Max(0, Cos(d))) \div 1000,
       above_one |-> /\ CosIsPositive(d)
                     /\ IF d = 90 THEN phi_w_max - 1000 > 1813
                        ELSE phi_w_max > 1000]

\* calculate_directional_spread_rate, in hundredths of a m/min
calculate_directional_spread_rate(parameters, direction_degrees, moisture_content) ==
  LET R_0 == calculate_base_spread_rate(parameters, moisture_content)
  IN  IF R_0 <= 0 THEN 0
      ELSE (R_0 * (1000
                   + phi_w_directional(parameters, direction_degrees).milli
                   + calculate_slope_coefficient(parameters))) \div 1000

(***************************************************************************)
(* The spread from one cell to a neighbour                                 *)
(* (FireSimulationEngine._calculate_spread_to_neighbor).  The engine's     *)
(* grid_resolution is counted in hundredths (settings.GRID_RESOLUTION is   *)
(* 0.01 unless the environment sets it) and a sample of the random source  *)
(* in hundredths, 0 .. 99.                                                 *)
(***************************************************************************)
\* math.degrees(math.atan2(dx, dy)) % 360 for the eight neighbours
SpreadDirection(dx, dy) ==
  CASE dx = 0 /\ dy = 1 -> 0     [] dx = 1 /\ dy = 1 -> 45
    [] dx = 1 /\ dy = 0 -> 90    [] dx = 1 /\ dy = -1 -> 135
    [] dx = 0 /\ dy = -1 -> 180  [] dx = -1 /\ dy = -1 -> 225
    [] dx = -1 /\ dy = 0 -> 270  [] dx = -1 /\ dy = 1 -> 315

\* math.sqrt(dx*dx + dy*dy), in hundredths of a cell
SpreadDistance(dx, dy) == IF dx = 0 \/ dy = 0 THEN 100 ELSE 141

\* will_ignite: random < ignition_probability * intensity_factor * 0.8,
\* where ignition_probability is (spread_rate / 60) / grid_resolution over
\* distance * grid_resolution.  With both sides multiplied out the test is
\*   random * 3 * grid_resolution^2 * distance < spread_rate * intensity * 4
\* and it holds for every sample when the right side is at least the
\* left side's factor of random.
will_ignite(parameters, grid_resolution, from_cell, dx, dy, random) ==
  LET spread_rate ==
        calculate_directional_spread_rate(parameters, SpreadDirection(dx, dy),
                                          parameters.humidity)
      den == 3 * grid_resolution * grid_resolution * SpreadDistance(dx, dy)
      num == spread_rate * from_cell.intensity * 4
  IN  /\ from_cell.state = BURNING
      /\ spread_rate > 0
      /\ IF num >= den THEN TRUE ELSE random * den < num * 100

\* new_intensity of _calculate_spread_to_neighbor: 80 times the wind, the
\* humidity and the slope factor and 0.7 + 0.6 * random, within 20 .. 200
new_intensity(parameters, random) ==
  LET a == (80 * (500 + parameters.windSpeed) * (100 - parameters.humidity))
             \div 500
      b == (a * (90 + parameters.slope)) \div 90
      c == (b * (700 + 6 * random)) \div 1000
  IN  Max(20, Min(200, c \div 100))

\* The draws of one spread pass when every sample of the random source is
\* random: the absent neighbours that some cell of the perimeter ignites,
\* each with the new_intensity of that sample.
SpreadDraws(parameters, grid_resolution, e, random) ==
  LET srcs == {q \in e.fire_perimeter : q \in DOMAIN e.fire_grid}
      lit == {n \in SpreadCandidates(e) :
                \E q \in srcs :
                   /\ n \in _get_neighboring_cells(q)
                   /\ will_ignite(parameters, grid_resolution, e.fire_grid[q],
                                  n[1] - q[1], n[2] - q[2], random)}
  IN  [n \in lit |-> new_intensity(parameters, random)]

(***************************************************************************)
(* State.  The manager's tables (SimulationManager.__init__), the engine   *)
(* objects they and the loops refer to, the asyncio tasks of the loops,    *)
(* the snapshot each websocket last received (the state sent when it       *)
(* connected, or a broadcast), where the call of shutdown() stands, and    *)
(* the outcome of the last operation; eng is the engine of the engine      *)
(* runs and calc the last call of a function of RothermelModel.            *)
(***************************************************************************)
VARIABLES simulations, websocket_connections, simulation_tasks, is_shutdown,
          heap, tasks, delivered, shutdown_frame, resp, settings, eng, calc

vars == <<simulations, websocket_connections, simulation_tasks, is_shutdown,
          heap, tasks, delivered, shutdown_frame, resp, settings, eng, calc>>

mgrVars == <<simulations, websocket_connections, simulation_tasks,
             is_shutdown, heap, tasks, delivered, shutdown_frame, resp,
             settings>>

\* the simulation ids a caller may name; the manager runs follow the loops
\* of the ids of FocusIds through every interleaving, the capacity runs
\* those of every id
Ids == {1, 2}
FocusIds == {1}
Sockets == 1..NumSockets
Handles == 1..MaxObjs
TaskIds == 1..MaxTasks

NoMsg == [status |-> "none", currentTime |-> 0]
\* what a websocket last received: a snapshot, and whether the route sent
\* it as the state at connection ("state") or a tick loop broadcast it
\* ("loop")
Received(msg, via) ==
  [status |-> msg.status, currentTime |-> msg.currentTime, via |-> via]
NoDelivery == Received(NoMsg, "none")
NoConns == [present |-> FALSE, conns |-> <<>>]

\* a free task slot
NoTask ==
  [simulation_id |-> 0, pc |-> "free", simulation |-> 0,
   must_cancel |-> FALSE, phase |-> "-", connections |-> <<>>,
   message |-> NoMsg]
\* asyncio.create_task(self._run_simulation_loop(simulation_id))
NewTask(id) == [NoTask EXCEPT !.simulation_id = id, !.pc = "new"]
\* a task that has ended
DoneTask(id) == [NoTask EXCEPT !.simulation_id = id, !.pc = "done"]

Live(tk) == tk.pc \in {"new", "send", "sleep"}

\* The call of shutdown(): not made ("idle"), suspended at await task
\* ("await") or at await websocket.close() ("close"), returned, or left by
\* an exception ("raised").  ids are the items its for loop has yet to
\* reach, at the id of the item it is at, di_used the size the dictionary
\* had when the loop over it began, connections what is left of the copy
\* connections[:], closed the websockets it closed.
NoShutdown ==
  [pc |-> "idle", ids |-> <<>>, at |-> 0, di_used |-> 0,
   connections |-> <<>>, closed |-> {}]

\* the state as one record, so that an operation can call another
World ==
  [simulations |-> simulations,
   websocket_connections |-> websocket_connections,
   simulation_tasks |-> simulation_tasks, is_shutdown |-> is_shutdown,
   heap |-> heap, tasks |-> tasks, delivered |-> delivered,
   shutdown_frame |-> shutdown_frame]

Elems(s) == {s[i] : i \in 1..Len(s)}

RECURSIVE SortedSeq(_)
SortedSeq(S) ==
  IF S = {} THEN <<>>
  ELSE LET m == CHOOSE x \in S : \A y \in S : x <= y
       IN  <<m>> \o SortedSeq(S \ {m})

\* the non-zero entries of s, each once, in the order of first occurrence
RECURSIVE Distinct(_)
Distinct(s) ==
  IF s = <<>> THEN <<>>
  ELSE LET r == Distinct(SubSeq(s, 1, Len(s) - 1))
           x == s[Len(s)]
       IN  IF x = 0 \/ x \in Elems(r) THEN r ELSE Append(r, x)

IndexIn(s, x) == IF x = 0 THEN 0 ELSE CHOOSE k \in 1..Len(s) : s[k] = x

\* Engine objects nothing refers to, ended tasks no longer registered and
\* websockets that no list and no broadcast under way holds are dropped.
Sweep(w) ==
  LET usedH == {w.simulations[i] : i \in Ids}
               \cup {w.tasks[t].simulation : t \in {u \in TaskIds : Live(w.tasks[u])}}
      usedT == {w.simulation_tasks[i] : i \in Ids}
      usedS == UNION {Elems(w.websocket_connections[i].conns) : i \in Ids}
               \cup UNION {Elems(w.tasks[t].connections) : t \in TaskIds}
  IN  [w EXCEPT
         !.heap = [h \in Handles |-> IF h \in usedH THEN w.heap[h] ELSE NoEngine],
         !.tasks = [t \in TaskIds |->
                      IF Live(w.tasks[t]) \/ t \in usedT THEN w.tasks[t]
                      ELSE NoTask],
         !.delivered = [ws \in Sockets |->
                          IF ws \in usedS THEN w.delivered[ws] ELSE NoDelivery]]

\* An object's or a task's identity is all that its slot number stands for:
\* the slots are renumbered in the order in which the dictionaries reach
\* them, the registered before the unregistered.
TaskOrder(w) ==
  LET ids == SortedSeq(Ids)
  IN  Distinct([k \in 1..Len(ids) |-> w.simulation_tasks[ids[k]]]
               \o [t \in TaskIds |-> IF w.tasks[t].pc # "free" THEN t ELSE 0])

HandleOrder(w, tOrd) ==
  LET ids == SortedSeq(Ids)
  IN  Distinct([k \in 1..Len(ids) |-> w.simulations[ids[k]]]
               \o [k \in 1..Len(tOrd) |-> w.tasks[tOrd[k]].simulation])

Renumber(w, tOrd, hOrd) ==
  [w EXCEPT
     !.simulations = [i \in Ids |-> IndexIn(hOrd, w.simulations[i])],
     !.simulation_tasks = [i \in Ids |-> IndexIn(tOrd, w.simulation_tasks[i])],
     !.heap = [h \in Handles |->
                 IF h <= Len(hOrd) THEN w.heap[hOrd[h]] ELSE NoEngine],
     !.tasks = [t \in TaskIds |->
                  IF t <= Len(tOrd)
                  THEN [w.tasks[tOrd[t]] EXCEPT !.simulation = IndexIn(hOrd, @)]
                  ELSE NoTask]]

\* the operation's outcome w0 becomes the next state
Commit(w0) ==
  \E wa \in {w0} : \E w1 \in {Sweep(wa)} :
    \E tOrd \in {TaskOrder(w1)} :
      \E hOrd \in {HandleOrder(w1, tOrd)} :
        \E w \in {Renumber(w1, tOrd, hOrd)} :
          /\ simulations' = w.simulations
          /\ websocket_connections' = w.websocket_connections
          /\ simulation_tasks' = w.simulation_tasks
          /\ is_shutdown' = w.is_shutdown
          /\ heap' = w.heap
          /\ tasks' = w.tasks
          /\ delivered' = w.delivered
          /\ shutdown_frame' = w.shutdown_frame

FreeHandle(w) ==
  LET free == {h \in Handles : w.heap[h].status = "none"}
  IN  IF free = {} THEN 0 ELSE CHOOSE h \in free : \A k \in free : h <= k

FreeTask(w) ==
  LET free == {t \in TaskIds : w.tasks[t].pc = "free"}
  IN  IF free = {} THEN 0 ELSE CHOOSE t \in free : \A k \in free : t <= k

\* list.remove: the first occurrence
RemoveFirst(s, x) ==
  IF \E i \in 1..Len(s) : s[i] = x
  THEN LET i == CHOOSE k \in 1..Len(s) :
                   s[k] = x /\ \A j \in 1..(k - 1) : s[j] # x
       IN  SubSeq(s, 1, i - 1) \o SubSeq(s, i + 1, Len(s))
  ELSE s

(***************************************************************************)
(* SimulationManager: the operations a caller invokes.  Each is a function *)
(* of the state that yields the new state and the HTTP status of the       *)
(* outcome (200, or the status_code of the HTTPException raised).          *)
(***************************************************************************)
Status(w, id) == w.heap[w.simulations[id]].status

running_count(w) ==
  Cardinality({i \in Ids : w.simulations[i] # 0 /\ Status(w, i) = RUNNING})

\* create_simulation without its test of MAX_SIMULATIONS
create_simulation_nocap(w, id, pts, st) ==
  IF running_count(w) >= st.MAX_CONCURRENT_SIMULATIONS
  THEN [w |-> w, code |-> 429]
  ELSE IF pts = {} THEN [w |-> w, code |-> 400]
  ELSE IF w.simulations[id] # 0 THEN [w |-> w, code |-> 409]
  ELSE LET h == FreeHandle(w)
       IN  [w |-> [w EXCEPT
                     !.heap[h] = NewEngine(pts, st.MAX_SIMULATION_TIME,
                                           st.MAX_FIRE_CELLS_PER_SIMULATION),
                     !.simulations[id] = h,
                     !.websocket_connections[id] =
                        [present |-> TRUE, conns |-> <<>>]],
            code |-> 200]

\* create_simulation, for a request that names its simulationId
\* create_simulation without its test of the id
create_simulation_overwrites(w, id, pts, st) ==
  IF Cardinality({i \in Ids : w.simulations[i] # 0}) >= st.MAX_SIMULATIONS
  THEN [w |-> w, code |-> 429]
  ELSE IF running_count(w) >= st.MAX_CONCURRENT_SIMULATIONS
  THEN [w |-> w, code |-> 429]
  ELSE IF pts = {} THEN [w |-> w, code |-> 400]
  ELSE LET h == FreeHandle(w)
       IN  [w |-> [w EXCEPT
                     !.heap[h] = NewEngine(pts, st.MAX_SIMULATION_TIME,
                                           st.MAX_FIRE_CELLS_PER_SIMULATION),
                     !.simulations[id] = h,
                     !.websocket_connections[id] =
                        [present |-> TRUE, conns |-> <<>>]],
            code |-> 200]

create_simulation(w, id, pts, st) ==
  IF Cardinality({i \in Ids : w.simulations[i] # 0}) >= st.MAX_SIMULATIONS
  THEN [w |-> w, code |-> 429]
  ELSE IF running_count(w) >= st.MAX_CONCURRENT_SIMULATIONS
  THEN [w |-> w, code |-> 429]
  ELSE IF pts = {} THEN [w |-> w, code |-> 400]
  ELSE IF w.simulations[id] # 0 THEN [w |-> w, code |-> 409]
  ELSE LET h == FreeHandle(w)
       IN  [w |-> [w EXCEPT
                     !.heap[h] = NewEngine(pts, st.MAX_SIMULATION_TIME,
                                           st.MAX_FIRE_CELLS_PER_SIMULATION),
                     !.simulations[id] = h,
                     !.websocket_connections[id] =
                        [present |-> TRUE, conns |-> <<>>]],
            code |-> 200]

\* start_simulation creating a task whether or not one is registered
start_simulation_respawn(w, id) ==
  IF w.simulations[id] = 0 THEN [w |-> w, code |-> 404]
  ELSE IF Status(w, id) # CREATED /\ Status(w, id) # PAUSED
  THEN [w |-> w, code |-> 400]
  ELSE LET h == w.simulations[id]
           w1 == [w EXCEPT !.heap[h] = start(@)]
           t == FreeTask(w)
       IN  [w |-> IF t # 0
                  THEN [w1 EXCEPT !.tasks[t] = NewTask(id),
                                  !.simulation_tasks[id] = t]
                  ELSE w1,
            code |-> 200]

\* start_simulation without its test of the status
start_simulation_anystatus(w, id) ==
  IF w.simulations[id] = 0 THEN [w |-> w, code |-> 404]
  ELSE LET h == w.simulations[id]
           w1 == [w EXCEPT !.heap[h] = start(@)]
           t == FreeTask(w)
       IN  [w |-> IF w.simulation_tasks[id] = 0 /\ t # 0
                  THEN [w1 EXCEPT !.tasks[t] = NewTask(id),
                                  !.simulation_tasks[id] = t]
                  ELSE w1,
            code |-> 200]

\* start_simulation
start_simulation(w, id) ==
  IF w.simulations[id] = 0 THEN [w |-> w, code |-> 404]
  ELSE IF Status(w, id) # CREATED /\ Status(w, id) # PAUSED
  THEN [w |-> w, code |-> 400]
  ELSE LET h == w.simulations[id]
           w1 == [w EXCEPT !.heap[h] = start(@)]
           t == FreeTask(w)
       IN  [w |-> IF w.simulation_tasks[id] = 0
                  THEN [w1 EXCEPT !.tasks[t] = NewTask(id),
                                  !.simulation_tasks[id] = t]
                  ELSE w1,
            code |-> 200]

\* pause_simulation
pause_simulation(w, id) ==
  IF w.simulations[id] = 0 THEN [w |-> w, code |-> 404]
  ELSE IF Status(w, id) # RUNNING THEN [w |-> w, code |-> 400]
  ELSE [w |-> [w EXCEPT !.heap[w.simulations[id]] = pause(@)], code |-> 200]

\* Task.cancel(): a task that has ended ignores it; any other is sent
\* CancelledError when it next runs
cancel(tk) == IF Live(tk) THEN [tk EXCEPT !.must_cancel = TRUE] ELSE tk

\* stop_simulation that cancels the id's task before it looks the id up
stop_simulation_cancelfirst(w, id) ==
  LET t == w.simulation_tasks[id]
      w0 == IF t # 0 THEN [w EXCEPT !.tasks[t] = cancel(@)] ELSE w
  IN  IF w.simulations[id] = 0 THEN [w |-> w0, code |-> 404]
      ELSE [w |-> [w0 EXCEPT !.heap[w.simulations[id]] = stop(@)],
            code |-> 200]

\* stop_simulation
stop_simulation(w, id) ==
  IF w.simulations[id] = 0 THEN [w |-> w, code |-> 404]
  ELSE LET h == w.simulations[id]
           w1 == [w EXCEPT !.heap[h] = stop(@)]
           t == w.simulation_tasks[id]
       IN  [w |-> IF t # 0 THEN [w1 EXCEPT !.tasks[t] = cancel(@)] ELSE w1,
            code |-> 200]

\* get_simulation_state
get_simulation_state(w, id) ==
  IF w.simulations[id] = 0 THEN [w |-> w, code |-> 404]
  ELSE [w |-> w, code |-> 200]

\* delete_simulation without the stop of a running simulation
delete_simulation_nostop(w, id) ==
  IF w.simulations[id] = 0 THEN [w |-> w, code |-> 404]
  ELSE [w |-> [w EXCEPT !.simulations[id] = 0,
                        !.websocket_connections[id] = NoConns],
        code |-> 200]

\* delete_simulation
delete_simulation(w, id) ==
  IF w.simulations[id] = 0 THEN [w |-> w, code |-> 404]
  ELSE LET w1 == IF Status(w, id) = RUNNING
                 THEN stop_simulation(w, id).w ELSE w
       IN  [w |-> [w1 EXCEPT !.simulations[id] = 0,
                             !.websocket_connections[id] = NoConns],
            code |-> 200]

\* add_websocket_connection
add_websocket_connection(w, id, ws) ==
  LET c == w.websocket_connections[id]
  IN  [w EXCEPT !.websocket_connections[id] =
         [present |-> TRUE, conns |-> Append(c.conns, ws)]]

\* remove_websocket_connection
remove_websocket_connection(w, id, ws) ==
  IF w.websocket_connections[id].present
  THEN [w EXCEPT !.websocket_connections[id].conns = RemoveFirst(@, ws)]
  ELSE w

(***************************************************************************)
(* shutdown, cut at its suspension points: await task and await            *)
(* websocket.close().  The dictionaries are gone through in the order of   *)
(* the ids.                                                                *)
(***************************************************************************)
\* the keys of self.simulation_tasks and of self.websocket_connections
RegisteredIds(w) == {i \in Ids : w.simulation_tasks[i] # 0}
ListedIds(w) == {i \in Ids : w.websocket_connections[i].present}

\* the three clear() calls and the return
ClearAll(w) ==
  [w EXCEPT
     !.simulations = [i \in Ids |-> 0],
     !.websocket_connections = [i \in Ids |-> NoConns],
     !.simulation_tasks = [i \in Ids |-> 0],
     !.shutdown_frame = [@ EXCEPT !.pc = "returned", !.ids = <<>>, !.at = 0,
                                  !.di_used = 0, !.connections = <<>>]]

\* the loop over self.websocket_connections.items() from the items ids on,
\* up to its first await
RECURSIVE CloseConnections(_, _)
CloseConnections(w, ids) ==
  IF ids = <<>> THEN ClearAll(w)
  ELSE LET c == w.websocket_connections[Head(ids)].conns
       IN  IF c = <<>> THEN CloseConnections(w, Tail(ids))
           ELSE [w EXCEPT !.shutdown_frame =
                   [@ EXCEPT !.pc = "close", !.at = Head(ids),
                             !.ids = Tail(ids), !.di_used = 0,
                             !.connections = c]]

\* The loop over self.simulation_tasks.items() from the items ids on, up to
\* its first suspension: the await of a task that has ended does not suspend.
RECURSIVE CancelTasks(_, _)
CancelTasks(w, ids) ==
  IF ids = <<>> THEN CloseConnections(w, SortedSeq(ListedIds(w)))
  ELSE LET t == w.simulation_tasks[Head(ids)]
       IN  IF Live(w.tasks[t])
           THEN [w EXCEPT !.tasks[t] = cancel(@),
                          !.shutdown_frame =
                             [@ EXCEPT !.pc = "await", !.at = Head(ids),
                                       !.ids = Tail(ids)]]
           ELSE CancelTasks(w, Tail(ids))

\* shutdown up to its first suspension
shutdown(w) ==
  CancelTasks([w EXCEPT !.is_shutdown = TRUE,
                        !.shutdown_frame.di_used = Cardinality(RegisteredIds(w))],
              SortedSeq(RegisteredIds(w)))

\* The awaited task has ended.  The for loop asks the dictionary's iterator
\* for its next item; the iterator raises RuntimeError if the dictionary's
\* size is no longer the one it began with, and nothing in shutdown catches
\* that.
AwaitTaskEnds(w) ==
  IF Cardinality(RegisteredIds(w)) # w.shutdown_frame.di_used
  THEN [w EXCEPT !.shutdown_frame = [@ EXCEPT !.pc = "raised", !.ids = <<>>,
                                              !.at = 0, !.di_used = 0]]
  ELSE CancelTasks(w, w.shutdown_frame.ids)

\* the awaited websocket.close() ends (closed, or failed and logged)
CloseEnds(w) ==
  LET f == w.shutdown_frame
      w1 == [w EXCEPT !.shutdown_frame =
               [@ EXCEPT !.closed = @ \cup {Head(f.connections)},
                         !.connections = Tail(@)]]
  IN  IF Tail(f.connections) = <<>> THEN CloseConnections(w1, f.ids) ELSE w1

(***************************************************************************)
(* _run_simulation_loop, cut at its suspension points: the await of each   *)
(* websocket.send_text inside _broadcast_to_clients and the pacing sleep.  *)
(* phase says which broadcast a task is in: that of a tick, the one after  *)
(* the while loop, or the one of the except Exception handler.             *)
(***************************************************************************)

\* the finally block, after which the task has ended
Finally(w, t) ==
  LET id == w.tasks[t].simulation_id
  IN  [w EXCEPT !.simulation_tasks[id] = 0, !.tasks[t] = DoneTask(id)]

\* what follows a broadcast that has returned
AfterBroadcast(w, t, phase) ==
  IF phase = "tick"
  THEN [w EXCEPT !.tasks[t] =
          [@ EXCEPT !.pc = "sleep", !.phase = "-", !.connections = <<>>,
                    !.message = NoMsg]]
  ELSE Finally(w, t)

\* _broadcast_to_clients up to its first await
BeginBroadcast(w, t, phase, msg) ==
  LET c == w.websocket_connections[w.tasks[t].simulation_id]
  IN  IF ~c.present \/ c.conns = <<>> THEN AfterBroadcast(w, t, phase)
      ELSE [w EXCEPT !.tasks[t] =
              [@ EXCEPT !.pc = "send", !.phase = phase,
                        !.connections = c.conns, !.message = msg]]

\* except asyncio.CancelledError
ExceptCancelled(w, t) ==
  Finally([w EXCEPT !.heap[w.tasks[t].simulation] = stop(@)], t)

\* except Exception, with simulation bound
ExceptException(w, t) ==
  LET h == w.tasks[t].simulation
      w1 == [w EXCEPT !.heap[h].status = ERROR]
  IN  BeginBroadcast(w1, t, "error", _get_current_state(w1.heap[h]))

\* the while test and, when it passes, the body up to its first await
RunLoop(w, t, in) ==
  LET h == w.tasks[t].simulation
      e == w.heap[h]
  IN  IF e.status = RUNNING /\ ~w.is_shutdown
      THEN LET e2 == step(e, in.draws, in.fault)
           IN  BeginBroadcast([w EXCEPT !.heap[h] = e2], t, "tick",
                              _get_current_state(e2))
      ELSE BeginBroadcast(w, t, "final", _get_current_state(e))

\* The task runs for the first time.  Cancelled before that, the coroutine
\* is thrown CancelledError before its try block is entered: neither handler
\* nor finally runs.  With the id gone from the table, self.simulations[id]
\* raises KeyError, the handler fails on the unbound name simulation, and
\* finally runs.
LoopFirstRun(w, t, in) ==
  LET tk == w.tasks[t]
      id == tk.simulation_id
  IN  IF tk.must_cancel THEN [w EXCEPT !.tasks[t] = DoneTask(id)]
      ELSE IF w.simulations[id] = 0 THEN Finally(w, t)
      ELSE RunLoop([w EXCEPT !.tasks[t].simulation = w.simulations[id]], t, in)

\* the sleep ends
LoopWake(w, t, in) ==
  IF w.tasks[t].must_cancel THEN ExceptCancelled(w, t) ELSE RunLoop(w, t, in)

\* the rest of the for loop of _broadcast_to_clients
NextConnection(w, t) ==
  IF Len(w.tasks[t].connections) <= 1
  THEN AfterBroadcast(w, t, w.tasks[t].phase)
  ELSE [w EXCEPT !.tasks[t].connections = Tail(@)]

\* The awaited send_text ends: cancelled, done (ok), or failed.  A failed
\* send removes the websocket from the id's list; with the id's list gone
\* that raises KeyError out of _broadcast_to_clients.
SendEnds(w, t, ok) ==
  LET tk == w.tasks[t]
      id == tk.simulation_id
      ws == Head(tk.connections)
  IN  IF tk.must_cancel
      THEN IF tk.phase = "error" THEN Finally(w, t) ELSE ExceptCancelled(w, t)
      ELSE IF ok
      THEN NextConnection(
             [w EXCEPT !.delivered[ws] = Received(tk.message, "loop")], t)
      ELSE IF ~w.websocket_connections[id].present
      THEN IF tk.phase = "error" THEN Finally(w, t) ELSE ExceptException(w, t)
      ELSE NextConnection(
             [w EXCEPT !.websocket_connections[id].conns = RemoveFirst(@, ws)], t)

(***************************************************************************)
(* The manager's behaviours.                                               *)
(***************************************************************************)
\* ignition points a create request may carry (none, or one at the origin)
RequestPoints == {{}, {<<0, 0>>}}

\* the faults let happen inside step in the manager runs
MgrFaults == {"none", "decay"}

NoResp == [op |-> "none", id |-> 0, code |-> 0]

\* no call of a function of RothermelModel yet
NoParameters ==
  [vegetationType |-> "none", windSpeed |-> 0, windDirection |-> 0,
   humidity |-> 0, slope |-> 0]

NoCalc ==
  [fn |-> "none", parameters |-> NoParameters, grid_resolution |-> 0,
   moisture |-> 0, direction |-> 0, random |-> 0, value |-> 0]

EmptyManager ==
  /\ simulations = [i \in Ids |-> 0]
  /\ websocket_connections = [i \in Ids |-> NoConns]
  /\ simulation_tasks = [i \in Ids |-> 0]
  /\ is_shutdown = FALSE
  /\ heap = [h \in Handles |-> NoEngine]
  /\ tasks = [t \in TaskIds |-> NoTask]
  /\ delivered = [s \in Sockets |-> NoDelivery]
  /\ shutdown_frame = NoShutdown
  /\ resp = NoResp

Init ==
  /\ EmptyManager
  /\ settings = [MAX_SIMULATIONS |-> MgrMaxSimulations,
                 MAX_CONCURRENT_SIMULATIONS |-> MgrMaxConcurrent,
                 MAX_SIMULATION_TIME |-> MgrMaxTime,
                 MAX_FIRE_CELLS_PER_SIMULATION |-> MgrMaxCells]
  /\ eng = NoEngine
  /\ calc = NoCalc

Reply(op, id, r) ==
  /\ Commit(r.w)
  /\ resp' = [op |-> op, id |-> id, code |-> r.code]
  /\ UNCHANGED <<settings, eng, calc>>

Create(id, pts) ==
  \E r \in {create_simulation(World, id, pts, settings)} :
      /\ r.code = 200 => FreeHandle(World) # 0
      /\ Reply("create", id, r)

Start(id) ==
  \E r \in {start_simulation(World, id)} :
      /\ (r.code = 200 /\ simulation_tasks[id] = 0) => FreeTask(World) # 0
      /\ Reply("start", id, r)

Pause(id) == \E r \in {pause_simulation(World, id)} : Reply("pause", id, r)

Stop(id) == \E r \in {stop_simulation(World, id)} : Reply("stop", id, r)

Delete(id) == \E r \in {delete_simulation(World, id)} : Reply("delete", id, r)

\* A websocket connects to /ws/simulations/{id}: a websocket that no list
\* and no broadcast under way still holds is registered and, if the
\* simulation exists, sent its state.
Connect(id, ws) ==
  /\ \A i \in Ids : ws \notin Elems(websocket_connections[i].conns)
  /\ \A t \in TaskIds : ws \notin Elems(tasks[t].connections)
  /\ Commit([add_websocket_connection(World, id, ws)
               EXCEPT !.delivered[ws] =
                  IF simulations[id] # 0
                  THEN Received(_get_current_state(heap[simulations[id]]),
                                "state")
                  ELSE NoDelivery])
  /\ UNCHANGED <<resp, settings, eng, calc>>

\* the websocket's handler ends (the client went away)
Disconnect(id, ws) ==
  /\ ws \in Elems(websocket_connections[id].conns)
  /\ Commit(remove_websocket_connection(World, id, ws))
  /\ UNCHANGED <<resp, settings, eng, calc>>

TaskFirstRun(t, faults) ==
  /\ tasks[t].pc = "new"
  /\ \E in \in (IF tasks[t].must_cancel \/ simulations[tasks[t].simulation_id] = 0
                THEN {[draws |-> <<>>, fault |-> "none"]}
                ELSE StepInputs(heap[simulations[tasks[t].simulation_id]],
                                MgrWindow, faults)) :
        Commit(LoopFirstRun(World, t, in))
  /\ UNCHANGED <<resp, settings, eng, calc>>

TaskWake(t, faults) ==
  /\ tasks[t].pc = "sleep"
  /\ \E in \in StepInputs(heap[tasks[t].simulation], MgrWindow, faults) :
        Commit(LoopWake(World, t, in))
  /\ UNCHANGED <<resp, settings, eng, calc>>

\* the send_text a task awaits ends, delivered (ok) or failed
SendStep(t, ok) ==
  /\ tasks[t].pc = "send"
  /\ Commit(SendEnds(World, t, ok))
  /\ UNCHANGED <<resp, settings, eng, calc>>

TaskSendEnds(t) == \E ok \in BOOLEAN : SendStep(t, ok)

Next ==
  \/ \E id \in FocusIds : \E pts \in RequestPoints : Create(id, pts)
  \/ \E id \in FocusIds : Start(id)
  \/ \E id \in FocusIds : Pause(id)
  \/ \E id \in FocusIds : Stop(id)
  \/ \E id \in FocusIds : Delete(id)
  \/ \E id \in FocusIds : \E ws \in Sockets : Connect(id, ws)
  \/ \E id \in FocusIds : \E ws \in Sockets : Disconnect(id, ws)
  \/ \E t \in TaskIds : TaskFirstRun(t, MgrFaults)
  \/ \E t \in TaskIds : TaskWake(t, MgrFaults)
  \/ \E t \in TaskIds : TaskSendEnds(t)

Spec == Init /\ [][Next]_vars

(***************************************************************************)
(* The capacity runs: every id, any MAX_SIMULATIONS up to the number of    *)
(* ids, no websocket, no fault inside step.                                *)
(***************************************************************************)
CapInit ==
  /\ EmptyManager
  /\ \E n \in 1..MgrMaxSimulations :
        settings = [MAX_SIMULATIONS |-> n,
                    MAX_CONCURRENT_SIMULATIONS |-> MgrMaxConcurrent,
                    MAX_SIMULATION_TIME |-> CapMaxTime,
                    MAX_FIRE_CELLS_PER_SIMULATION |-> MgrMaxCells]
  /\ eng = NoEngine
  /\ calc = NoCalc

CapNext ==
  \/ \E id \in Ids : \E pts \in RequestPoints : Create(id, pts)
  \/ \E id \in Ids : Start(id)
  \/ \E id \in Ids : Pause(id)
  \/ \E id \in Ids : Stop(id)
  \/ \E id \in Ids : Delete(id)
  \/ \E t \in TaskIds : TaskFirstRun(t, {"none"})
  \/ \E t \in TaskIds : TaskWake(t, {"none"})

CapSpec == CapInit /\ [][CapNext]_vars

(***************************************************************************)
(* The subscription runs: every id, websockets that subscribe to the ids   *)
(* of FocusIds and take what they are sent, faults inside step in the      *)
(* loops of those ids.                                                     *)
(***************************************************************************)
FaultsOf(t) ==
  IF tasks[t].simulation_id \in FocusIds THEN MgrFaults ELSE {"none"}

\* the inputs of a step in which the decay pass raises
FaultInput == [draws |-> <<>>, fault |-> "decay"]

\* a tick of the loop t in which step meets a fault
FaultyTick(t) ==
  /\ ~tasks[t].must_cancel
  /\ ~is_shutdown
  /\ \/ /\ tasks[t].pc = "new"
        /\ simulations[tasks[t].simulation_id] # 0
        /\ heap[simulations[tasks[t].simulation_id]].status = RUNNING
        /\ Commit(LoopFirstRun(World, t, FaultInput))
     \/ /\ tasks[t].pc = "sleep"
        /\ heap[tasks[t].simulation].status = RUNNING
        /\ Commit(LoopWake(World, t, FaultInput))
  /\ UNCHANGED <<resp, settings, eng, calc>>

FrameInit ==
  /\ EmptyManager
  /\ settings = [MAX_SIMULATIONS |-> MgrMaxSimulations,
                 MAX_CONCURRENT_SIMULATIONS |-> MgrMaxConcurrent,
                 MAX_SIMULATION_TIME |-> CapMaxTime,
                 MAX_FIRE_CELLS_PER_SIMULATION |-> MgrMaxCells]
  /\ eng = NoEngine
  /\ calc = NoCalc

FrameNext ==
  \/ \E id \in Ids : \E pts \in RequestPoints : Create(id, pts)
  \/ \E id \in Ids : Start(id)
  \/ \E id \in Ids : Pause(id)
  \/ \E id \in Ids : Stop(id)
  \/ \E id \in Ids : Delete(id)
  \/ \E id \in FocusIds : \E ws \in Sockets : Connect(id, ws)
  \/ \E t \in TaskIds : TaskFirstRun(t, FaultsOf(t))
  \/ \E t \in TaskIds : TaskWake(t, FaultsOf(t))
  \/ \E t \in TaskIds : SendStep(t, TRUE)

FrameSpec == FrameInit /\ [][FrameNext]_vars

(***************************************************************************)
(* The shutdown runs: the manager runs, and shutdown() called once, in any *)
(* state.  The application calls it when it has stopped serving: from the  *)
(* call on only the loops and shutdown itself run.                         *)
(***************************************************************************)
Serving == shutdown_frame.pc = "idle"

ShutdownReply(w) ==
  /\ Commit(w)
  /\ resp' = [op |-> "shutdown", id |-> 0,
              code |-> CASE w.shutdown_frame.pc = "returned" -> 200
                         [] w.shutdown_frame.pc = "raised" -> 500
                         [] OTHER -> 0]
  /\ UNCHANGED <<settings, eng, calc>>

Shutdown ==
  /\ Serving
  /\ ShutdownReply(shutdown(World))

\* the task shutdown awaits has ended: no loop of that id is alive
ShutdownAwaitEnds ==
  /\ shutdown_frame.pc = "await"
  /\ \A t \in TaskIds :
        tasks[t].simulation_id = shutdown_frame.at => ~Live(tasks[t])
  /\ ShutdownReply(AwaitTaskEnds(World))

ShutdownCloseEnds ==
  /\ shutdown_frame.pc = "close"
  /\ ShutdownReply(CloseEnds(World))

ShutNext ==
  \/ Serving /\ \E id \in FocusIds : \E pts \in RequestPoints : Create(id, pts)
  \/ Serving /\ \E id \in FocusIds : Start(id)
  \/ Serving /\ \E id \in FocusIds : Pause(id)
  \/ Serving /\ \E id \in FocusIds : Stop(id)
  \/ Serving /\ \E id \in FocusIds : Delete(id)
  \/ Serving /\ \E id \in FocusIds : \E ws \in Sockets : Connect(id, ws)
  \/ Serving /\ \E id \in FocusIds : \E ws \in Sockets : Disconnect(id, ws)
  \/ \E t \in TaskIds : TaskFirstRun(t, MgrFaults)
  \/ \E t \in TaskIds : TaskWake(t, MgrFaults)
  \/ \E t \in TaskIds : TaskSendEnds(t)
  \/ Shutdown
  \/ ShutdownAwaitEnds
  \/ ShutdownCloseEnds

ShutSpec == Init /\ [][ShutNext]_vars

(***************************************************************************)
(* The engine's behaviours: one engine, its methods called in any order.   *)
(***************************************************************************)
\* the ignition points of the engine runs, as grid positions: any non-empty
\* part of the window, or the whole 3 x 3 block around the origin
Block == {<<x, y>> : x \in {-1, 0, 1}, y \in {-1, 0, 1}}
EngIgnitions == ((SUBSET EngWindow) \ {{}}) \cup {Block}

EngInit ==
  /\ EmptyManager
  /\ settings = [MAX_SIMULATIONS |-> MgrMaxSimulations,
                 MAX_CONCURRENT_SIMULATIONS |-> MgrMaxConcurrent,
                 MAX_SIMULATION_TIME |-> EngMaxTime,
                 MAX_FIRE_CELLS_PER_SIMULATION |-> EngMaxCells]
  /\ \E pts \in EngIgnitions :
       \E maxCells \in 2..EngMaxCells :
          eng = NewEngine(pts, settings.MAX_SIMULATION_TIME, maxCells)
  /\ calc = NoCalc

\* a method of the engine was called: resp names it, the manager is idle
Called(op) ==
  /\ resp' = [op |-> op, id |-> 0, code |-> 0]
  /\ UNCHANGED <<simulations, websocket_connections, simulation_tasks,
                 is_shutdown, heap, tasks, delivered, shutdown_frame,
                 settings, calc>>

EngStart ==
  /\ eng.status \in {CREATED, PAUSED}
  /\ eng' = start(eng)
  /\ Called("start")

EngPause ==
  /\ eng.status = RUNNING
  /\ eng' = pause(eng)
  /\ Called("pause")

EngStop ==
  /\ eng' = stop(eng)
  /\ Called("stop")

EngStep ==
  /\ \E in \in StepInputs(eng, EngWindow, FaultPoints) :
        eng' = step(eng, in.draws, in.fault)
  /\ Called("step")

EngNext == EngStart \/ EngPause \/ EngStop \/ EngStep

EngineSpec == EngInit /\ [][EngNext]_vars

(***************************************************************************)
(* The functions of RothermelModel called on their own.  They keep no      *)
(* state, so a run is one call: the parameters are drawn when the run      *)
(* begins, the moisture and the direction at the call; calc keeps the      *)
(* call and what it returned.                                              *)
(***************************************************************************)
\* the greatest moisture content a call is given, in halves of a percent
MaxMoisture == 60

WindSpeeds == {0, 1, 10, 20}
WindDirections == {0, 225, 360}
Humidities == {0, 40, 100}
Slopes == {0, 10, 45}
Directions == {0, 45, 90, 135, 180, 225, 270, 315}
GridResolutions == {1, 100}
Randoms == {0, 50, 99}

\* SimulationParameters (app/models/simulation.py)
ParameterSets ==
  [vegetationType : VegetationTypes, windSpeed : WindSpeeds,
   windDirection : WindDirections, humidity : Humidities, slope : Slopes]

Idle ==
  UNCHANGED <<simulations, websocket_connections, simulation_tasks,
              is_shutdown, heap, tasks, delivered, shutdown_frame, resp,
              settings>>

RothInit ==
  /\ EmptyManager
  /\ settings = [MAX_SIMULATIONS |-> MgrMaxSimulations,
                 MAX_CONCURRENT_SIMULATIONS |-> MgrMaxConcurrent,
                 MAX_SIMULATION_TIME |-> MgrMaxTime,
                 MAX_FIRE_CELLS_PER_SIMULATION |-> MgrMaxCells]
  /\ eng = NoEngine
  /\ \E p \in ParameterSets : calc = [NoCalc EXCEPT !.parameters = p]

Returned(fn, moisture, direction, value) ==
  /\ calc.fn = "none"
  /\ calc' = [calc EXCEPT !.fn = fn, !.moisture = moisture,
                          !.direction = direction, !.value = value]
  /\ UNCHANGED eng
  /\ Idle

MoistureDamping ==
  \E m \in 0..MaxMoisture :
     Returned("moisture_damping", m, 0,
              calculate_moisture_damping_coefficient(
                 m, calc.parameters.vegetationType))

BaseSpreadRate ==
  \E m \in 0..MaxMoisture :
     Returned("base_spread_rate", m, 0,
              calculate_base_spread_rate(calc.parameters, m))

WindCoefficient ==
  Returned("wind", 0, 0, calculate_wind_coefficient(calc.parameters))

SlopeCoefficient ==
  Returned("slope", 0, 0, calculate_slope_coefficient(calc.parameters))

\* calculate_directional_spread_rate; value keeps the rate returned and
\* the phi_w_directional it was computed from
DirectionalSpreadRate ==
  \E d \in Directions : \E m \in {0, 20, MaxMoisture} :
     Returned("directional", m, d,
              [rate |-> calculate_directional_spread_rate(calc.parameters,
                                                          d, m),
               phi_w_directional |-> phi_w_directional(calc.parameters, d)])

RothNext ==
  \/ MoistureDamping
  \/ BaseSpreadRate
  \/ WindCoefficient
  \/ SlopeCoefficient
  \/ DirectionalSpreadRate

RothermelSpec == RothInit /\ [][RothNext]_vars

(***************************************************************************)
(* One engine with one ignition point at the origin, stepped with a        *)
(* random source that returns the same sample at every call; calc keeps    *)
(* the engine's parameters and grid_resolution and the sample of the last  *)
(* step.                                                                   *)
(***************************************************************************)
SpreadInit ==
  /\ EmptyManager
  /\ settings = [MAX_SIMULATIONS |-> MgrMaxSimulations,
                 MAX_CONCURRENT_SIMULATIONS |-> MgrMaxConcurrent,
                 MAX_SIMULATION_TIME |-> MgrMaxTime,
                 MAX_FIRE_CELLS_PER_SIMULATION |-> EngMaxCells]
  /\ eng = NewEngine({<<0, 0>>}, settings.MAX_SIMULATION_TIME,
                     settings.MAX_FIRE_CELLS_PER_SIMULATION)
  /\ \E p \in ParameterSets : \E g \in GridResolutions :
        calc = [NoCalc EXCEPT !.parameters = p, !.grid_resolution = g]

SpreadStep ==
  /\ eng.status = RUNNING
  /\ \E r \in Randoms :
        /\ eng' = step(eng,
                       SpreadDraws(calc.parameters, calc.grid_resolution,
                                   _update_existing_fire_cells(eng), r),
                       "none")
        /\ calc' = [calc EXCEPT !.fn = "step", !.random = r]
  /\ Idle

SpreadNext == EngStart \/ SpreadStep

SpreadSpec == SpreadInit /\ [][SpreadNext]_vars

(***************************************************************************)
(* The properties.  A property of the steps of one operation names the     *)
(* operation's action; resp' names the operation too, and is tested first  *)
(* so that the action is evaluated on its own steps only.                  *)
(***************************************************************************)
Exists(id) == simulations[id] # 0
StatusOf(id) == heap[simulations[id]].status
Known == {i \in Ids : Exists(i)}
\* the tick loops of id that have not ended
LiveLoops(id) == {t \in TaskIds : tasks[t].simulation_id = id /\ Live(tasks[t])}
Subscribers(id) == Elems(websocket_connections[id].conns)

\* C1: a simulation whose status is Running always has a live tick loop
\* registered for its id, whatever the interleaving of create, start, pause,
\* stop and delete with a loop that sleeps, broadcasts or exits.
C1_RunningHasLiveLoop ==
  \A id \in Ids :
     (Exists(id) /\ StatusOf(id) = RUNNING)
        => (simulation_tasks[id] # 0 /\ Live(tasks[simulation_tasks[id]]))

\* C2: for every interleaving there is at most one live tick loop per
\* simulation id.
C2_AtMostOneLiveLoop == \A id \in Ids : Cardinality(LiveLoops(id)) <= 1

\* start was accepted while the id's loop, having left the while loop, was
\* suspended in its last broadcast
C2_StartedWhileLoopExits ==
  \E id \in Ids : \E t \in LiveLoops(id) :
     /\ resp = [op |-> "start", id |-> id, code |-> 200]
     /\ Exists(id) /\ StatusOf(id) = RUNNING
     /\ tasks[t].pc = "send" /\ tasks[t].phase = "final"

\* C3: when a live loop that has begun to run is cancelled, the loop sends
\* one more snapshot, of terminal status, to the id's subscribers before it
\* ends: at the step that ends the loop every subscriber of the id has
\* received a Completed snapshot.
C3_CancelledLoopSendsTerminalSnapshot ==
  [][\A id \in Ids : \A ws \in Sockets :
       ( /\ \E t \in LiveLoops(id) :
               tasks[t].must_cancel /\ tasks[t].pc # "new"
         /\ LiveLoops(id)' = {}
         /\ ws \in Subscribers(id) )
       => delivered'[ws].status = COMPLETED]_vars

\* C4: the number of Running simulations never exceeds
\* MAX_CONCURRENT_SIMULATIONS, a start at the cap being rejected.
C4_RunningWithinCap ==
  running_count(World) <= settings.MAX_CONCURRENT_SIMULATIONS

\* C5: the number of simulations never exceeds MAX_SIMULATIONS; a create
\* made when that many exist, whatever their statuses, is rejected with 429
\* and adds nothing.
C5_TotalWithinCap ==
  [][/\ Cardinality(Known') <= settings.MAX_SIMULATIONS
     /\ \A id \in Ids : \A pts \in RequestPoints :
           (Cardinality(Known) >= settings.MAX_SIMULATIONS
              /\ resp'.op = "create" /\ Create(id, pts))
              => (resp'.code = 429 /\ Known' = Known)]_vars

\* a create was rejected with every simulation of a full table Completed
C5_RejectedAtCapAllCompleted ==
  /\ resp.op = "create" /\ resp.code = 429
  /\ Cardinality(Known) = settings.MAX_SIMULATIONS
  /\ Cardinality(Known) = Cardinality(Ids)
  /\ \A id \in Known : StatusOf(id) = COMPLETED

\* C6: start of a Completed or Error simulation fails with 400 and leaves
\* the status as it was; start of a Created or Paused one succeeds and
\* makes it Running.
C6_StartByStatus ==
  [][\A id \in Ids :
       (Exists(id) /\ resp'.op = "start" /\ Start(id))
          => /\ StatusOf(id) \in {COMPLETED, ERROR}
                  => (resp'.code = 400 /\ StatusOf(id)' = StatusOf(id))
             /\ StatusOf(id) \in {CREATED, PAUSED}
                  => (resp'.code = 200 /\ StatusOf(id)' = RUNNING)]_vars

\* start was rejected for a simulation that is Completed and never ran (a
\* loop that completes one advances its tick counter first, so it was
\* Completed when start was called)
C6_StartOfCompletedRejected ==
  \E id \in Ids :
     /\ resp = [op |-> "start", id |-> id, code |-> 400]
     /\ Exists(id) /\ StatusOf(id) = COMPLETED
     /\ heap[simulations[id]].current_time = 0

\* C7: stop of a Created, Paused, Completed or Error simulation is rejected
\* with 400 and leaves the status as it was.
C7_StopOnlyWhenRunning ==
  [][\A id \in Ids :
       (Exists(id) /\ StatusOf(id) \in {CREATED, PAUSED, COMPLETED, ERROR}
          /\ resp'.op = "stop" /\ Stop(id))
          => (resp'.code = 400 /\ StatusOf(id)' = StatusOf(id))]_vars

\* C8: Error is terminal: a simulation that is in Error and is still there
\* after a step is still in Error.
C8_ErrorIsTerminal ==
  [][\A id \in Ids :
       (Exists(id) /\ StatusOf(id) = ERROR /\ Exists(id)')
          => StatusOf(id)' = ERROR]_vars

\* C9: step on an engine that is not Running changes nothing, and no method
\* advances the tick counter of an engine that is not Running.
C9_StepNoOpUnlessRunning ==
  [][eng.status # RUNNING
       => /\ eng'.current_time = eng.current_time
          /\ EngStep => eng' = eng]_vars

\* step was called on a Paused engine that had run
C9_SteppedWhilePaused ==
  /\ resp.op = "step"
  /\ eng.status = PAUSED
  /\ eng.current_time > 0

\* C10: a Running engine is Completed at the end of the first step after
\* which no cell is Burning.
C10_CompletedWhenNothingBurns ==
  [][( /\ eng.status = RUNNING
       /\ EngStep
       /\ eng'.current_time = eng.current_time + 1
       /\ \A p \in DOMAIN eng'.fire_grid : eng'.fire_grid[p].state # BURNING )
       => eng'.status = COMPLETED]_vars

GridSize(e) == Cardinality(DOMAIN e.fire_grid)

\* C11: a step that runs to its end with the tick count at max_simulation_time
\* or the grid at max_fire_cells sets the status to Completed; after any
\* step that leaves the engine Running the tick count is below
\* max_simulation_time and the grid below max_fire_cells; the tick counter
\* never exceeds max_simulation_time.
C11_LimitsEndTheRun ==
  [][/\ eng'.current_time <= eng'.max_simulation_time
     /\ EngStep =>
          /\ eng'.status = RUNNING
               => /\ eng'.current_time < eng'.max_simulation_time
                  /\ GridSize(eng') < eng'.max_fire_cells
          /\ ( /\ eng.status = RUNNING
               /\ eng'.current_time = eng.current_time + 1
               /\ \/ eng'.current_time >= eng'.max_simulation_time
                  \/ GridSize(eng') >= eng'.max_fire_cells )
               => eng'.status = COMPLETED]_vars

\* a step that ignited a cell filled the grid to max_fire_cells before the
\* time limit and ended the run
C11_EndedByCellCap ==
  /\ resp.op = "step"
  /\ eng.status = COMPLETED
  /\ eng.current_time > 0
  /\ eng.current_time < eng.max_simulation_time
  /\ GridSize(eng) >= eng.max_fire_cells
  /\ \E p \in DOMAIN eng.fire_grid : eng.fire_grid[p].ignition_time > 0

\* C12: a cell of the grid is never removed and never replaced: a position
\* present before a step is present after it with the same ignition time
\* and no higher intensity, and a Burned cell stays as it is.
C12_CellsAreKept ==
  [][\A p \in DOMAIN eng.fire_grid :
       /\ p \in DOMAIN eng'.fire_grid
       /\ eng'.fire_grid[p].ignition_time = eng.fire_grid[p].ignition_time
       /\ eng'.fire_grid[p].intensity <= eng.fire_grid[p].intensity
       /\ eng.fire_grid[p].state = BURNED
            => eng'.fire_grid[p] = eng.fire_grid[p]]_vars

\* a spread pass ran from a Burning perimeter cell that has a Burned
\* neighbour
C12_SpreadPastBurnedCell ==
  /\ resp.op = "step"
  /\ \E p \in DOMAIN eng.fire_grid : \E q \in eng.fire_perimeter :
        /\ p \in _get_neighboring_cells(q)
        /\ q \in DOMAIN eng.fire_grid /\ eng.fire_grid[q].state = BURNING
        /\ eng.fire_grid[p].state = BURNED
        /\ eng.current_time >
             eng.fire_grid[p].ignition_time + eng.fire_grid[p].burned_duration + 1

\* C13: in every state of an engine, the state right after creation
\* included, the perimeter is a subset of the grid's positions, every
\* perimeter position has a neighbour absent from the grid, and every
\* Burning cell with an absent neighbour is in the perimeter.
C13_PerimeterIsTheEdge ==
  LET absent(p) == \E n \in _get_neighboring_cells(p) : n \notin DOMAIN eng.fire_grid
  IN  /\ eng.fire_perimeter \subseteq DOMAIN eng.fire_grid
      /\ \A p \in eng.fire_perimeter : absent(p)
      /\ \A p \in DOMAIN eng.fire_grid :
            (eng.fire_grid[p].state = BURNING /\ absent(p))
               => p \in eng.fire_perimeter

\* C14: the snapshots a tick loop broadcasts for one id carry strictly
\* increasing tick values: a websocket that last received a broadcast
\* receives from the next one a snapshot of a higher currentTime.
C14_BroadcastTicksIncrease ==
  [][\A t \in TaskIds :
       ( /\ tasks[t].pc = "send" /\ ~tasks[t].must_cancel
         /\ delivered[Head(tasks[t].connections)].via = "loop"
         /\ SendStep(t, TRUE) )
       => tasks[t].message.currentTime
            > delivered[Head(tasks[t].connections)].currentTime]_vars

\* C15: a broadcast pushes its snapshot to every subscriber that was in the
\* id's list when it started: when the send to one of them ends, that
\* subscriber has received the snapshot and is in the list if it was, or its
\* delivery failed and it is in the list no more; the subscribers not yet
\* served are still to be served; the lists of the other ids are as they
\* were.
C15_BroadcastReachesEverySubscriber ==
  [][\A t \in TaskIds :
       (tasks[t].pc = "send" /\ TaskSendEnds(t))
       => \A id \in {tasks[t].simulation_id} :
          \A ws \in {Head(tasks[t].connections)} :
          \A rest \in {Tail(tasks[t].connections)} :
              /\ \/ /\ delivered'[ws] = Received(tasks[t].message, "loop")
                    /\ ws \in Subscribers(id) => ws \in Subscribers(id)'
                 \/ ws \notin Subscribers(id)'
              /\ rest # <<>>
                   => \E u \in TaskIds :
                         /\ tasks'[u].simulation_id = id
                         /\ tasks'[u].pc = "send"
                         /\ tasks'[u].connections = rest
                         /\ tasks'[u].message = tasks[t].message
              /\ \A i \in Ids \ {id} :
                    websocket_connections'[i] = websocket_connections[i]]_vars

\* C16: shutdown() never ends in a fault, in whatever state it is called;
\* and when it returns no loop is alive, every websocket that was registered
\* has been closed, and the simulation table, the subscriber table and the
\* loop registry are empty.
C16_ShutdownCompletesAndClears ==
  [][resp'.op = "shutdown" =>
       /\ shutdown_frame'.pc # "raised"
       /\ shutdown_frame'.pc = "returned" =>
             /\ \A t \in TaskIds : ~Live(tasks'[t])
             /\ \A i \in Ids :
                   /\ Subscribers(i) \subseteq shutdown_frame'.closed
                   /\ simulations'[i] = 0
                   /\ ~websocket_connections'[i].present
                   /\ simulation_tasks'[i] = 0]_vars


\* what an id stands for, whatever the slots its objects are kept in: its
\* simulation, and its loops with the engine each holds
EngineAt(h) == IF h = 0 THEN NoEngine ELSE heap[h]
SimulationOf(i) == EngineAt(simulations[i])
LoopView(t) ==
  [task |-> [tasks[t] EXCEPT !.simulation = 0],
   engine |-> EngineAt(tasks[t].simulation),
   registered |-> simulation_tasks[tasks[t].simulation_id] = t]
LoopsOf(i) ==
  {LoopView(t) : t \in {u \in TaskIds : tasks[u].simulation_id = i}}

\* C17: a delete that succeeds stops a Running simulation (its engine is
\* Completed and its registered loop, if alive, is cancelled), removes the
\* simulation and the subscriber list of the id, so that get, start, pause,
\* stop and delete of that id then answer NotFound, and leaves the
\* simulation, the subscriber list and the loops of every other id as they
\* were.
C17_DeleteRemovesOnlyItsId ==
  [][\A id \in Ids :
       (resp'.op = "delete" /\ resp'.id = id /\ resp'.code = 200 /\ Delete(id))
       => /\ StatusOf(id) = RUNNING =>
               \A t \in {simulation_tasks[id]} \ {0} :
                 \A u \in {simulation_tasks'[id]} :
                    /\ Live(tasks[t]) => u # 0 /\ tasks'[u].must_cancel
                    /\ tasks[t].simulation = simulations[id] =>
                          u # 0 /\ heap'[tasks'[u].simulation].status = COMPLETED
          /\ simulations'[id] = 0
          /\ websocket_connections'[id] = NoConns
          /\ get_simulation_state(World, id)'.code = 404
          /\ start_simulation(World, id)'.code = 404
          /\ pause_simulation(World, id)'.code = 404
          /\ stop_simulation(World, id)'.code = 404
          /\ delete_simulation(World, id)'.code = 404
          /\ \A j \in Ids \ {id} :
                /\ SimulationOf(j)' = SimulationOf(j)
                /\ websocket_connections'[j] = websocket_connections[j]
                /\ LoopsOf(j)' = LoopsOf(j)]_vars

\* a Running simulation with a live loop has just been deleted while
\* another simulation has a live loop of its own
C17_DeletedWhileRunning ==
  /\ resp.op = "delete" /\ resp.code = 200
  /\ simulations[resp.id] = 0
  /\ \E t \in TaskIds :
        /\ tasks[t].simulation_id = resp.id
        /\ tasks[t].pc = "sleep" /\ tasks[t].must_cancel
        /\ heap[tasks[t].simulation].status = COMPLETED
  /\ \E j \in Ids \ {resp.id} :
        /\ Exists(j) /\ Subscribers(j) # {}
        /\ \E u \in LiveLoops(j) : ~tasks[u].must_cancel

\* C18: when the loop of an id ends, by whatever path, the loop registry
\* holds no task for that id.
C18_EndedLoopIsDeregistered ==
  [][\A id \in Ids :
       (LiveLoops(id) # {} /\ LiveLoops(id)' = {})
       => simulation_tasks'[id] = 0]_vars

\* C19: a fault inside step during a tick of a simulation leaves that
\* simulation in Error, and the broadcast of that tick carries the Error
\* snapshot to the subscribers the id then has; the simulation, the tick
\* counter, the grid and the loops of every other id are as they were; and
\* a simulation in Error is not stepped again: its tick counter and its
\* grid stay as they are for as long as it is in the table.
C19_FaultIsReportedAndIsolated ==
  [][/\ \A t \in TaskIds :
          (resp' = resp /\ tasks[t].pc \in {"new", "sleep"} /\ FaultyTick(t))
          => \A id \in {tasks[t].simulation_id} :
               /\ \E v \in LoopsOf(id)' :
                     /\ v.engine.status = ERROR
                     /\ Subscribers(id) = {} => v.task.pc = "sleep"
                     /\ Subscribers(id) # {} =>
                           /\ v.task.pc = "send"
                           /\ v.task.message.status = ERROR
                           /\ v.task.connections = websocket_connections[id].conns
               /\ Exists(id) => StatusOf(id)' = ERROR
               /\ \A j \in Ids \ {id} :
                     /\ SimulationOf(j)' = SimulationOf(j)
                     /\ LoopsOf(j)' = LoopsOf(j)
     /\ \A i \in Ids :
          (Exists(i) /\ StatusOf(i) = ERROR /\ Exists(i)')
          => [SimulationOf(i)' EXCEPT !.status = ERROR] = SimulationOf(i)]_vars

\* a loop is sending the Error snapshot of its tick to a subscriber while
\* another simulation has a loop of its own
C19_ErrorSnapshotOnItsWay ==
  \E t \in TaskIds :
     /\ tasks[t].pc = "send" /\ tasks[t].phase = "tick"
     /\ tasks[t].message.status = ERROR
     /\ Exists(tasks[t].simulation_id)
     /\ StatusOf(tasks[t].simulation_id) = ERROR
     /\ \E j \in Ids \ {tasks[t].simulation_id} :
           Exists(j) /\ LiveLoops(j) # {}

\* C20: in every state of the manager, with the caps reached or not, a
\* create with no ignition point is answered InvalidInput (400) and adds
\* no simulation.
C20_EmptyIgnitionIsInvalidInput ==
  [][\A id \in Ids :
       (resp'.op = "create" /\ resp'.id = id /\ Create(id, {}))
       => /\ resp'.code = 400
          /\ \A i \in Ids : Exists(i)' = Exists(i)]_vars

\* C21, as the code has it: a create that is rejected (429 at the cap on
\* the total or on the running simulations, 400 without ignition points,
\* 409 for an id in use) leaves the simulations, the subscriber lists, the
\* loop registry, the engines and the loops as they were; a create that
\* names an id in use is always rejected, and with 409 when neither cap is
\* reached and the request has ignition points.
C21_RejectedCreateChangesNothing ==
  [][\A id \in Ids : \A pts \in RequestPoints :
       (resp'.op = "create" /\ resp'.id = id /\ Create(id, pts))
       => /\ Exists(id) => resp'.code # 200
          /\ resp'.code # 200 =>
                /\ resp'.code \in {429, 400, 409}
                /\ UNCHANGED <<simulations, websocket_connections,
                               simulation_tasks, heap, tasks, delivered>>
          /\ ( /\ Exists(id) /\ pts # {}
               /\ Cardinality(Known) < settings.MAX_SIMULATIONS
               /\ running_count(World) < settings.MAX_CONCURRENT_SIMULATIONS )
             => resp'.code = 409]_vars

\* C21, as stated: whenever a create with ignition points names an id in
\* use, the answer is Conflict (409).
C21_ExistingIdIsConflict ==
  [][\A id \in Ids :
       (resp'.op = "create" /\ resp'.id = id /\ Exists(id)
          /\ Create(id, {<<0, 0>>}))
       => resp'.code = 409]_vars

\* a create naming the id of a Paused simulation with a live loop and a
\* subscriber has been answered 409
C21_ConflictOnPausedSimulation ==
  /\ resp.op = "create" /\ resp.code = 409
  /\ Exists(resp.id)
  /\ StatusOf(resp.id) = PAUSED
  /\ LiveLoops(resp.id) # {}
  /\ Subscribers(resp.id) # {}

\* C22: start, pause, stop, get and delete of an id that is not in the
\* simulation table are answered NotFound (404) in the call itself and
\* change nothing: no simulation, subscriber list, engine or loop is
\* created, removed or modified.
C22_AbsentIdIsNotFound ==
  [][\A id \in Ids :
       ~Exists(id)
       => /\ get_simulation_state(World, id) = [w |-> World, code |-> 404]
          /\ ( /\ resp'.op \in {"start", "pause", "stop", "delete"}
               /\ resp'.id = id
               /\ Start(id) \/ Pause(id) \/ Stop(id) \/ Delete(id) )
             => /\ resp'.code = 404
                /\ UNCHANGED <<simulations, websocket_connections,
                               simulation_tasks, is_shutdown, heap, tasks,
                               delivered>>]_vars

\* a stop was answered 404 for an id that is gone while its loop is still
\* alive, not cancelled, and a websocket is subscribed to it
C22_StopOfDeletedIdWithLiveLoop ==
  /\ resp.op = "stop" /\ resp.code = 404
  /\ ~Exists(resp.id)
  /\ Subscribers(resp.id) # {}
  /\ \E t \in LiveLoops(resp.id) :
        ~tasks[t].must_cancel /\ simulation_tasks[resp.id] = t

(***************************************************************************)
(* C23.  For every fuel, calculate_moisture_damping_coefficient returns    *)
(* exactly 0 for a moisture content at or above the fuel's extinction      *)
(* moisture, and a value between 0 and 1 for a moisture content below it.  *)
(***************************************************************************)
C23_DampingVanishesAtExtinction ==
  calc.fn = "moisture_damping"
  => LET D == 2 * moisture_extinction(calc.parameters.vegetationType)
     IN  /\ calc.moisture >= D => calc.value = 0
         /\ calc.moisture < D => calc.value >= 0 /\ calc.value <= 1000

\* grassland at exactly its extinction moisture of 15 percent
C23_GrasslandAtExtinction ==
  /\ calc.fn = "moisture_damping"
  /\ calc.parameters.vegetationType = "grassland"
  /\ calc.moisture = 2 * moisture_extinction("grassland")
  /\ calc.value = 0

(***************************************************************************)
(* C24.  calculate_wind_coefficient and calculate_slope_coefficient return *)
(* at least 1.0 for every parameter set, and exactly 1.0 when the wind     *)
(* speed, respectively the slope, is 0.                                    *)
(***************************************************************************)
C24_CoefficientsAtLeastOne ==
  /\ calc.fn = "wind"
     => /\ calc.value >= 1000
        /\ calc.parameters.windSpeed = 0 => calc.value = 1000
  /\ calc.fn = "slope"
     => /\ calc.value >= 1000
        /\ calc.parameters.slope = 0 => calc.value = 1000

\* a light wind whose Rothermel term is below 1: the lower limit acts
C24_LightWindIsRaisedToOne ==
  /\ calc.fn = "wind"
  /\ calc.parameters.windSpeed > 0
  /\ WindTerm(calc.parameters.vegetationType, calc.parameters.windSpeed) < 1000
  /\ calc.value = 1000

(***************************************************************************)
(* C25.  With wind, the directional spread rate in the wind direction is   *)
(* at least the rate in the opposite direction; the directional wind term  *)
(* lies between 1 and the wind coefficient, is exactly 1 for a direction   *)
(* more than 90 degrees from the wind direction and, at exactly 90         *)
(* degrees, is 1 to within a thousandth.                                   *)
(***************************************************************************)
C25_DownwindAtLeastUpwind ==
  calc.fn = "directional"
  => LET p == calc.parameters
         d == wind_angle_diff(calc.direction, p.windDirection)
         t == calc.value.phi_w_directional
     IN  /\ t.milli >= 1000
         /\ t.milli <= calculate_wind_coefficient(p)
         /\ d > 90 => t.milli = 1000 /\ ~t.above_one
         /\ d = 90 => t.milli = 1000
         /\ (p.windSpeed > 0 /\ d = 0)
            => calc.value.rate >=
                 calculate_directional_spread_rate(
                    p, (calc.direction + 180) % 360, calc.moisture)

\* the statement with the wind term exactly 1 at 90 degrees too
C25_WindTermIsOneFromNinetyDegrees ==
  calc.fn = "directional"
  => LET d == wind_angle_diff(calc.direction, calc.parameters.windDirection)
         t == calc.value.phi_w_directional
     IN  d >= 90 => t.milli = 1000 /\ ~t.above_one

\* a call in the wind direction whose rate is above that of the opposite
\* direction
C25_DownwindFaster ==
  /\ calc.fn = "directional"
  /\ calc.parameters.windSpeed > 0
  /\ wind_angle_diff(calc.direction, calc.parameters.windDirection) = 0
  /\ calc.value.phi_w_directional.milli =
       calculate_wind_coefficient(calc.parameters)
  /\ calc.value.rate >
       calculate_directional_spread_rate(
          calc.parameters, (calc.direction + 180) % 360, calc.moisture)

(***************************************************************************)
(* C26.  A grassland engine with no wind, humidity 100, no slope and one   *)
(* ignition point: after its first step the ignition cell is still         *)
(* BURNING and no other cell has been ignited, for every sample of the     *)
(* random source that is not below one half.                               *)
(***************************************************************************)
C26_HumidGrasslandDoesNotSpread ==
  ( /\ calc.fn = "step"
    /\ calc.random >= 50
    /\ eng.current_time = 1
    /\ calc.parameters.vegetationType = "grassland"
    /\ calc.parameters.windSpeed = 0
    /\ calc.parameters.humidity = 100
    /\ calc.parameters.slope = 0 )
  => /\ eng.fire_grid[<<0, 0>>].state = BURNING
     /\ GridSize(eng) = 1

(***************************************************************************)
(* C27.  Within one step the decay pass comes before the spread pass: a    *)
(* cell ignited by the step leaves it BURNING with the intensity and the   *)
(* temperature it was ignited with, and it has a neighbour that was        *)
(* BURNING before the step and is still BURNING after the step's decay, so *)
(* that no cell turned BURNED by this step has ignited it.                 *)
(***************************************************************************)
C27_DecayBeforeSpread ==
  [][(resp'.op = "step" /\ EngStep)
       => \A p \in DOMAIN eng'.fire_grid \ DOMAIN eng.fire_grid :
             /\ eng'.fire_grid[p] \in
                  {SpreadCell(i, eng.current_time) : i \in BaseIntensities}
             /\ \E q \in _get_neighboring_cells(p) \cap DOMAIN eng.fire_grid :
                   /\ eng.fire_grid[q].state = BURNING
                   /\ eng'.fire_grid[q].state = BURNING]_vars

\* a step after the first has ignited a cell next to a cell it has decayed
C27_IgnitedBesideDecayedCell ==
  /\ resp.op = "step"
  /\ eng.current_time >= 2
  /\ \E p \in DOMAIN eng.fire_grid :
        /\ eng.fire_grid[p].ignition_time = eng.current_time - 1
        /\ eng.fire_grid[p].state = BURNING
        /\ eng.fire_grid[p].intensity \in {30, 200}
        /\ \E q \in _get_neighboring_cells(p) \cap DOMAIN eng.fire_grid :
              /\ eng.fire_grid[q].state = BURNING
              /\ eng.fire_grid[q].intensity = 100 - eng.current_time

(***************************************************************************)
(* C28.  A step that runs its decay pass takes 1 from the intensity of     *)
(* every BURNING cell, never below 0, and turns the cell BURNED exactly    *)
(* when the new intensity is below 5 or the ticks since its ignition       *)
(* exceed 60; a BURNED cell is never changed again.                        *)
(***************************************************************************)
C28_DecayAmountsAndThresholds ==
  [][\A p \in DOMAIN eng.fire_grid :
       LET c == eng.fire_grid[p]
       IN  /\ p \in DOMAIN eng'.fire_grid
           /\ c.state = BURNED => eng'.fire_grid[p] = c
           /\ ( /\ c.state = BURNING
                /\ resp'.op = "step" /\ EngStep
                /\ eng'.current_time = eng.current_time + 1 )
              => \A d \in {eng'.fire_grid[p]} :
                    /\ d.intensity = Max(0, c.intensity - 1)
                    /\ d.state \in {BURNING, BURNED}
                    /\ d.state = BURNED
                         <=> \/ d.intensity < 5
                             \/ eng.current_time - c.ignition_time > 60
                    /\ d.state = BURNED
                         => d.burned_duration
                              = eng.current_time - c.ignition_time]_vars

\* one cell burned out by the cap on the burning time and another by the
\* floor on the intensity, and a step taken since
C28_BurnedByCapAndByFloor ==
  /\ resp.op = "step"
  /\ \E p \in DOMAIN eng.fire_grid : \E q \in DOMAIN eng.fire_grid :
        /\ eng.fire_grid[p].state = BURNED
        /\ eng.fire_grid[p].burned_duration = 61
        /\ eng.fire_grid[p].intensity >= 5
        /\ eng.fire_grid[q].state = BURNED
        /\ eng.fire_grid[q].intensity = 4
        /\ eng.fire_grid[q].burned_duration < 61
        /\ eng.current_time
             > eng.fire_grid[q].ignition_time
               + eng.fire_grid[q].burned_duration + 1

(***************************************************************************)
(* C29.  After every step the perimeter holds only positions of the grid   *)
(* whose cell is BURNING: a cell that has become BURNED is not in it.      *)
(***************************************************************************)
C29_PerimeterIsBurning ==
  resp.op = "step"
  => \A p \in eng.fire_perimeter :
        /\ p \in DOMAIN eng.fire_grid
        /\ eng.fire_grid[p].state = BURNING

(***************************************************************************)
(* C30.  In every snapshot of an engine, activeFires is the number of      *)
(* BURNING cells of the grid, burnedArea the number of BURNED cells, and   *)
(* the two add up to totalCells.                                           *)
(***************************************************************************)
C30_MetadataCountsCells ==
  LET m == SimulationMetadata(eng)
      burning == {p \in DOMAIN eng.fire_grid :
                    eng.fire_grid[p].state = BURNING}
      burned == {p \in DOMAIN eng.fire_grid :
                   eng.fire_grid[p].state = BURNED}
  IN  /\ m.activeFires = Cardinality(burning)
      /\ m.burnedArea = Cardinality(burned)
      /\ m.activeFires + m.burnedArea = m.totalCells

(***************************************************************************)
(* C31.  A send that fails, in a loop that was not cancelled, only removes *)
(* the websocket from the id's list: the status of the loop's simulation   *)
(* is left as it was and a loop that was broadcasting a tick goes on to    *)
(* its next send or to its sleep, also when the id was deleted while the   *)
(* send was awaited.                                                       *)
(***************************************************************************)
C31_FailedSendOnlyRemovesSubscriber ==
  [][\A t \in TaskIds :
       ( /\ tasks[t].pc = "send"
         /\ ~tasks[t].must_cancel
         /\ SendStep(t, FALSE) )
       => \A w \in {SendEnds(World, t, FALSE)} :
             /\ w.heap[tasks[t].simulation].status
                  = heap[tasks[t].simulation].status
             /\ tasks[t].phase = "tick" => Live(w.tasks[t])
             /\ \A ws \in Sockets :
                   ws # Head(tasks[t].connections)
                   => \A i \in Ids :
                         ws \in Elems(websocket_connections[i].conns)
                         => ws \in Elems(w.websocket_connections[i].conns)]_vars

\* the greater of the two coordinate differences of two grid positions
Chebyshev(p, q) ==
  Max(Max(p[1] - q[1], q[1] - p[1]), Max(p[2] - q[2], q[2] - p[2]))

(***************************************************************************)
(* C32.  A position enters the grid in a step only as one of the 8         *)
(* neighbours of a position that was in the perimeter when the step began  *)
(* and whose cell is BURNING after the step's decay; a cell ignited in a   *)
(* step ignites nothing in that step, so that after n steps every position *)
(* of the grid is within Chebyshev distance n of the ignition position.    *)
(***************************************************************************)
C32_SpreadReachesOnlyNeighbours ==
  [][(calc'.fn = "step" /\ SpreadStep)
       => /\ \A p \in DOMAIN eng'.fire_grid \ DOMAIN eng.fire_grid :
                \E q \in eng.fire_perimeter \cap DOMAIN eng.fire_grid :
                   /\ Chebyshev(p, q) = 1
                   /\ eng'.fire_grid[q].state = BURNING
          /\ \A p \in DOMAIN eng'.fire_grid :
                Chebyshev(p, <<0, 0>>) <= eng'.current_time]_vars

\* the second step has ignited a cell two cells away from the ignition
\* position, from a cell the first step ignited
C32_SecondRingReached ==
  /\ calc.fn = "step"
  /\ eng.current_time = 2
  /\ \E p \in DOMAIN eng.fire_grid :
        /\ Chebyshev(p, <<0, 0>>) = 2
        /\ eng.fire_grid[p].ignition_time = 1

(***************************************************************************)
(* C33.  In every state of an engine total_cells_burned is the number of   *)
(* cells of the grid whose state is BURNED: a cell is counted once, when   *)
(* it turns from BURNING to BURNED.                                        *)
(***************************************************************************)
C33_BurnedCounterCountsBurnedCells ==
  eng.total_cells_burned
    = Cardinality({p \in DOMAIN eng.fire_grid :
                     eng.fire_grid[p].state = BURNED})

\* two cells burned out in different steps, and a step taken after the
\* later of the two
C33_TwoBurnedAtDifferentTicks ==
  /\ resp.op = "step"
  /\ eng.total_cells_burned = 2
  /\ \E p \in DOMAIN eng.fire_grid : \E q \in DOMAIN eng.fire_grid :
        LET c == eng.fire_grid[p]
            d == eng.fire_grid[q]
        IN  /\ c.state = BURNED /\ d.state = BURNED
            /\ c.ignition_time + c.burned_duration
                 < d.ignition_time + d.burned_duration
            /\ d.ignition_time + d.burned_duration + 1 < eng.current_time

(***************************************************************************)
(* C34.  After every step the ticks since its ignition are at most 61 for  *)
(* every BURNING cell, and a step that runs its decay pass 61 ticks after  *)
(* a cell's ignition leaves that cell BURNED.                              *)
(***************************************************************************)
C34_BurningTimeIsCapped ==
  [][/\ \A p \in DOMAIN eng'.fire_grid :
           eng'.fire_grid[p].state = BURNING
           => eng'.current_time - eng'.fire_grid[p].ignition_time <= 61
     /\ ( /\ resp'.op = "step" /\ EngStep
          /\ eng'.current_time = eng.current_time + 1 )
        => \A p \in DOMAIN eng.fire_grid :
              eng.current_time = eng.fire_grid[p].ignition_time + 61
              => eng'.fire_grid[p].state = BURNED]_vars

\* a cell that has burned for 61 ticks and is BURNING still, with a step
\* to come
C34_BurningAtTheCap ==
  /\ resp.op = "step"
  /\ eng.status = RUNNING
  /\ \E p \in DOMAIN eng.fire_grid :
        /\ eng.fire_grid[p].state = BURNING
        /\ eng.current_time - eng.fire_grid[p].ignition_time = 61

(***************************************************************************)
(* The fair runs: one id, simulations that are created, started and        *)
(* deleted but never paused or stopped by a request, websockets that       *)
(* subscribe and stay, faults inside step.  The event loop runs every      *)
(* task that is ready: a loop that was created gets its first run, a loop  *)
(* whose sleep ended wakes, and a send_text that is awaited ends.          *)
(***************************************************************************)
LiveNext ==
  \/ \E id \in FocusIds : \E pts \in RequestPoints : Create(id, pts)
  \/ \E id \in FocusIds : Start(id)
  \/ \E id \in FocusIds : Delete(id)
  \/ \E id \in FocusIds : \E ws \in Sockets : Connect(id, ws)
  \/ \E t \in TaskIds : TaskFirstRun(t, MgrFaults)
  \/ \E t \in TaskIds : TaskWake(t, MgrFaults)
  \/ \E t \in TaskIds : TaskSendEnds(t)

\* A task's slot number changes as tasks end, so fairness is stated for
\* the tasks together; every loop ends after finitely many of its steps,
\* so none of them runs instead of another for ever.
LoopFairness ==
  /\ WF_vars(\E t \in TaskIds : TaskFirstRun(t, MgrFaults))
  /\ WF_vars(\E t \in TaskIds : TaskWake(t, MgrFaults))
  /\ WF_vars(\E t \in TaskIds : TaskSendEnds(t))

LiveSpec == Init /\ [][LiveNext]_vars /\ LoopFairness

(***************************************************************************)
(* C35.  Under fair scheduling of the tick loops, a simulation that is     *)
(* RUNNING and is never paused, stopped or deleted is COMPLETED or in      *)
(* ERROR in the end, and no tick loop of its id is left.                   *)
(***************************************************************************)
C35_RunningSimulationEnds ==
  \A id \in FocusIds :
     (Exists(id) /\ StatusOf(id) = RUNNING)
        ~> \/ ~Exists(id)
           \/ /\ StatusOf(id) \in {COMPLETED, ERROR}
              /\ LiveLoops(id) = {}

(***************************************************************************)
(* C36.  A websocket leaves the list of its id only when its handler ends, *)
(* when a send_text to it fails, or when the id is deleted; a create       *)
(* request in particular leaves every list as it was.                      *)
(***************************************************************************)
C36_SubscriberStays ==
  [][\A id \in FocusIds : \A ws \in Sockets :
        (ws \in Subscribers(id) /\ ws \notin Subscribers(id)')
        => \/ Disconnect(id, ws)
           \/ Delete(id)
           \/ \E t \in TaskIds :
                 /\ tasks[t].pc = "send"
                 /\ Head(tasks[t].connections) = ws
                 /\ SendStep(t, FALSE)]_vars

(***************************************************************************)
(* C37.  A tick loop that delivers a snapshot to a subscriber of its id    *)
(* holds the simulation stored under that id, and a tick loop that takes   *)
(* the task handle of its id out of simulation_tasks takes out its own.    *)
(***************************************************************************)
C37_LoopServesTheStoredSimulation ==
  [][\A t \in TaskIds : \A id \in {tasks[t].simulation_id} :
        /\ ( /\ tasks[t].pc = "send"
             /\ SendStep(t, TRUE)
             /\ Exists(id)
             /\ Head(tasks[t].connections) \in Subscribers(id) )
           => tasks[t].simulation = simulations[id]
        /\ ( /\ Live(tasks[t])
             /\ simulation_tasks[id] # 0
             /\ \/ TaskFirstRun(t, MgrFaults)
                \/ TaskWake(t, MgrFaults)
                \/ TaskSendEnds(t)
             /\ simulation_tasks'[id] = 0 )
           => simulation_tasks[id] = t]_vars
====
